---------------------------- MODULE Spec2Model ----------------------------
(***************************************************************************)
(* The phonet ("Hannoveraner Phonetik") transcription engine of            *)
(* abydos/phonetic.py: rule tables, index construction                     *)
(* (_initialize_phonet) and the scanning interpreter (_phonet).            *)
(*                                                                         *)
(* A character is a one-token string; a Python str is a sequence of        *)
(* characters.  ASCII characters stand for themselves; the others are      *)
(* written with their HTML entity names ("Auml" is A-umlaut, "szlig" is    *)
(* sharp s, "acute" is U+00B4, "grave" is U+0060, "quot" is U+0022).       *)
(* Positions (i, j, pos, matches ...) are 0-based as in the source.        *)
(***************************************************************************)
EXTENDS Integers, Sequences, FiniteSets, TLC

\* Python's None as an entry of a rule table (no pattern / no replacement).
None == <<"None">>

phonet_rules_no_lang ==
  <<
    <<"acute">>, <<" ">>, <<" ">>,
    <<"quot">>, <<" ">>, <<" ">>,
    <<"grave", "$">>, <<>>, <<>>,
    <<"'">>, <<" ">>, <<" ">>,
    <<",">>, <<",">>, <<",">>,
    <<";">>, <<",">>, <<",">>,
    <<"-">>, <<" ">>, <<" ">>,
    <<" ">>, <<" ">>, <<" ">>,
    <<".">>, <<".">>, <<".">>,
    <<":">>, <<".">>, <<".">>,
    <<"Auml">>, <<"A", "E">>, <<"A", "E">>,
    <<"Ouml">>, <<"O", "E">>, <<"O", "E">>,
    <<"Uuml">>, <<"U", "E">>, <<"U", "E">>,
    <<"szlig">>, <<"S">>, <<"S">>,
    <<"Agrave">>, <<"A">>, <<"A">>,
    <<"Aacute">>, <<"A">>, <<"A">>,
    <<"Acirc">>, <<"A">>, <<"A">>,
    <<"Atilde">>, <<"A">>, <<"A">>,
    <<"Aring">>, <<"A">>, <<"A">>,
    <<"AElig">>, <<"A", "E">>, <<"A", "E">>,
    <<"Ccedil">>, <<"C">>, <<"C">>,
    <<"ETH">>, <<"D", "J">>, <<"D", "J">>,
    <<"Egrave">>, <<"E">>, <<"E">>,
    <<"Eacute">>, <<"E">>, <<"E">>,
    <<"Ecirc">>, <<"E">>, <<"E">>,
    <<"Euml">>, <<"E">>, <<"E">>,
    <<"Igrave">>, <<"I">>, <<"I">>,
    <<"Iacute">>, <<"I">>, <<"I">>,
    <<"Icirc">>, <<"I">>, <<"I">>,
    <<"Iuml">>, <<"I">>, <<"I">>,
    <<"Ntilde">>, <<"N", "H">>, <<"N", "H">>,
    <<"Ograve">>, <<"O">>, <<"O">>,
    <<"Oacute">>, <<"O">>, <<"O">>,
    <<"Ocirc">>, <<"O">>, <<"O">>,
    <<"Otilde">>, <<"O">>, <<"O">>,
    <<"OElig">>, <<"O", "E">>, <<"O", "E">>,
    <<"Oslash">>, <<"O", "E">>, <<"O", "E">>,
    <<"Scaron">>, <<"S", "H">>, <<"S", "H">>,
    <<"THORN">>, <<"T", "H">>, <<"T", "H">>,
    <<"Ugrave">>, <<"U">>, <<"U">>,
    <<"Uacute">>, <<"U">>, <<"U">>,
    <<"Ucirc">>, <<"U">>, <<"U">>,
    <<"Yacute">>, <<"Y">>, <<"Y">>,
    <<"Yuml">>, <<"Y">>, <<"Y">>,
    <<"M", "C", "^">>, <<"M", "A", "C">>, <<"M", "A", "C">>,
    <<"M", "C", "^">>, <<"M", "A", "C">>, <<"M", "A", "C">>,
    <<"M", "acute", "^">>, <<"M", "A", "C">>, <<"M", "A", "C">>,
    <<"M", "'", "^">>, <<"M", "A", "C">>, <<"M", "A", "C">>,
    <<"O", "acute", "^">>, <<"O">>, <<"O">>,
    <<"O", "'", "^">>, <<"O">>, <<"O">>,
    <<"V", "A", "N", " ", "D", "E", "N", " ", "^">>, <<"V", "A", "N", "D", "E", "N">>, <<"V", "A", "N", "D", "E", "N">>,
    None, None, None
  >>

phonet_rules_german ==
  <<
    <<"acute">>, <<" ">>, <<" ">>,
    <<"quot">>, <<" ">>, <<" ">>,
    <<"grave", "$">>, <<>>, <<>>,
    <<"'">>, <<" ">>, <<" ">>,
    <<",">>, <<" ">>, <<" ">>,
    <<";">>, <<" ">>, <<" ">>,
    <<"-">>, <<" ">>, <<" ">>,
    <<" ">>, <<" ">>, <<" ">>,
    <<".">>, <<".">>, <<".">>,
    <<":">>, <<".">>, <<".">>,
    <<"Auml", "E">>, <<"E">>, <<"E">>,
    <<"Auml", "U", "<">>, <<"E", "U">>, <<"E", "U">>,
    <<"Auml", "V", "(", "A", "E", "O", "U", ")", "-", "<">>, <<"E", "W">>, None,
    <<"Auml", "$">>, <<"Auml">>, None,
    <<"Auml", "<">>, None, <<"E">>,
    <<"Auml">>, <<"E">>, None,
    <<"Ouml", "E">>, <<"Ouml">>, <<"Ouml">>,
    <<"Ouml", "U">>, <<"Ouml">>, <<"Ouml">>,
    <<"Ouml", "V", "E", "R", "-", "-", "<">>, <<"Ouml", "W">>, None,
    <<"Ouml", "V", "(", "A", "O", "U", ")", "-">>, <<"Ouml", "W">>, None,
    <<"Uuml", "B", "E", "L", "(", "G", "N", "R", "W", ")", "-", "^", "^">>, <<"Uuml", "B", "L", " ">>, <<"I", "B", "L", " ">>,
    <<"Uuml", "B", "E", "R", "^", "^">>, <<"Uuml", "B", "A">>, <<"I", "B", "A">>,
    <<"Uuml", "E">>, <<"Uuml">>, <<"I">>,
    <<"Uuml", "V", "E", "R", "-", "-", "<">>, <<"Uuml", "W">>, None,
    <<"Uuml", "V", "(", "A", "O", "U", ")", "-">>, <<"Uuml", "W">>, None,
    <<"Uuml">>, None, <<"I">>,
    <<"szlig", "C", "H", "<">>, None, <<"Z">>,
    <<"szlig", "<">>, <<"S">>, <<"Z">>,
    <<"Agrave", "<">>, <<"A">>, <<"A">>,
    <<"Aacute", "<">>, <<"A">>, <<"A">>,
    <<"Acirc", "<">>, <<"A">>, <<"A">>,
    <<"Atilde", "<">>, <<"A">>, <<"A">>,
    <<"Aring", "<">>, <<"A">>, <<"A">>,
    <<"AElig", "E", "R", "-">>, <<"E">>, <<"E">>,
    <<"AElig", "U", "<">>, <<"E", "U">>, <<"E", "U">>,
    <<"AElig", "V", "(", "A", "E", "O", "U", ")", "-", "<">>, <<"E", "W">>, None,
    <<"AElig", "$">>, <<"Auml">>, None,
    <<"AElig", "<">>, None, <<"E">>,
    <<"AElig">>, <<"E">>, None,
    <<"Ccedil">>, <<"Z">>, <<"Z">>,
    <<"ETH", "ETH", "-">>, <<>>, <<>>,
    <<"ETH">>, <<"D", "I">>, <<"T", "I">>,
    <<"Egrave", "<">>, <<"E">>, <<"E">>,
    <<"Eacute", "<">>, <<"E">>, <<"E">>,
    <<"Ecirc", "<">>, <<"E">>, <<"E">>,
    <<"Euml">>, <<"E">>, <<"E">>,
    <<"Igrave", "<">>, <<"I">>, <<"I">>,
    <<"Iacute", "<">>, <<"I">>, <<"I">>,
    <<"Icirc", "<">>, <<"I">>, <<"I">>,
    <<"Iuml">>, <<"I">>, <<"I">>,
    <<"Ntilde", "Ntilde", "-">>, <<>>, <<>>,
    <<"Ntilde">>, <<"N", "I">>, <<"N", "I">>,
    <<"Ograve", "<">>, <<"O">>, <<"U">>,
    <<"Oacute", "<">>, <<"O">>, <<"U">>,
    <<"Ocirc", "<">>, <<"O">>, <<"U">>,
    <<"Otilde", "<">>, <<"O">>, <<"U">>,
    <<"OElig", "<">>, <<"Ouml">>, <<"Ouml">>,
    <<"Oslash", "(", "I", "J", "Y", ")", "-", "<">>, <<"E">>, <<"E">>,
    <<"Oslash", "<">>, <<"Ouml">>, <<"Ouml">>,
    <<"Scaron">>, <<"S", "H">>, <<"Z">>,
    <<"THORN">>, <<"T">>, <<"T">>,
    <<"Ugrave", "<">>, <<"U">>, <<"U">>,
    <<"Uacute", "<">>, <<"U">>, <<"U">>,
    <<"Ucirc", "<">>, <<"U">>, <<"U">>,
    <<"Yacute", "<">>, <<"I">>, <<"I">>,
    <<"Yuml", "<">>, <<"I">>, <<"I">>,
    <<"A", "B", "E", "L", "L", "E", "$">>, <<"A", "B", "L">>, <<"A", "B", "L">>,
    <<"A", "B", "E", "L", "L", "$">>, <<"A", "B", "L">>, <<"A", "B", "L">>,
    <<"A", "B", "I", "E", "N", "N", "E", "$">>, <<"A", "B", "I", "N">>, <<"A", "B", "I", "N">>,
    <<"A", "C", "H", "M", "E", "-", "-", "-", "^">>, <<"A", "C", "H">>, <<"A", "K">>,
    <<"A", "C", "E", "Y", "$">>, <<"A", "Z", "I">>, <<"A", "Z", "I">>,
    <<"A", "D", "V">>, <<"A", "T", "W">>, None,
    <<"A", "E", "G", "L", "-">>, <<"E", "K">>, None,
    <<"A", "E", "U", "<">>, <<"E", "U">>, <<"E", "U">>,
    <<"A", "E", "2">>, <<"E">>, <<"E">>,
    <<"A", "F", "T", "R", "A", "U", "B", "E", "N", "-", "-", "-", "-", "-", "-">>, <<"A", "F", "T", " ">>, <<"A", "F", "T", " ">>,
    <<"A", "G", "L", "-", "1">>, <<"A", "K">>, None,
    <<"A", "G", "N", "I", "-", "^">>, <<"A", "K", "N">>, <<"A", "K", "N">>,
    <<"A", "G", "N", "I", "E", "-">>, <<"A", "N", "I">>, <<"A", "N", "I">>,
    <<"A", "G", "N", "(", "A", "E", "O", "U", ")", "-", "$">>, <<"A", "N", "I">>, <<"A", "N", "I">>,
    <<"A", "H", "(", "A", "I", "O", "Ouml", "U", "Uuml", "Y", ")", "-">>, <<"A", "H">>, None,
    <<"A", "I", "A", "2">>, <<"A", "I", "A">>, <<"A", "I", "A">>,
    <<"A", "I", "E", "$">>, <<"E">>, <<"E">>,
    <<"A", "I", "L", "L", "(", "E", "O", "U", ")", "-">>, <<"A", "L", "I">>, <<"A", "L", "I">>,
    <<"A", "I", "N", "E", "$">>, <<"E", "N">>, <<"E", "N">>,
    <<"A", "I", "R", "E", "$">>, <<"E", "R">>, <<"E", "R">>,
    <<"A", "I", "R", "-">>, <<"E">>, <<"E">>,
    <<"A", "I", "S", "E", "$">>, <<"E", "S">>, <<"E", "Z">>,
    <<"A", "I", "S", "S", "A", "N", "C", "E", "$">>, <<"E", "S", "A", "N", "S">>, <<"E", "Z", "A", "N", "Z">>,
    <<"A", "I", "S", "S", "E", "$">>, <<"E", "S">>, <<"E", "Z">>,
    <<"A", "I", "X", "$">>, <<"E", "X">>, <<"E", "X">>,
    <<"A", "J", "(", "A", "Auml", "E", "Egrave", "Eacute", "Ecirc", "I", "O", "Ouml", "U", "Uuml", ")", "-", "-">>, <<"A">>, <<"A">>,
    <<"A", "K", "T", "I", "E">>, <<"A", "X", "I", "E">>, <<"A", "X", "I", "E">>,
    <<"A", "K", "T", "U", "E", "L">>, <<"A", "K", "T", "U", "E", "L">>, None,
    <<"A", "L", "O", "I", "^">>, <<"A", "L", "O", "I">>, <<"A", "L", "U", "I">>,
    <<"A", "L", "O", "Y", "^">>, <<"A", "L", "O", "I">>, <<"A", "L", "U", "I">>,
    <<"A", "M", "A", "T", "E", "U", "(", "R", "S", ")", "-">>, <<"A", "M", "A", "T", "Ouml">>, <<"A", "N", "A", "T", "Ouml">>,
    <<"A", "N", "C", "H", "(", "O", "E", "I", ")", "-">>, <<"A", "N", "S", "H">>, <<"A", "N", "Z">>,
    <<"A", "N", "D", "E", "R", "G", "E", "G", "A", "N", "G", "-", "-", "-", "-">>, <<"A", "N", "D", "A", " ", "G", "E">>, <<"A", "N", "T", "A", " ", "K", "E">>,
    <<"A", "N", "D", "E", "R", "G", "E", "H", "E", "-", "-", "-", "-">>, <<"A", "N", "D", "A", " ">>, <<"A", "N", "T", "A", " ">>,
    <<"A", "N", "D", "E", "R", "G", "E", "S", "E", "T", "Z", "-", "-", "-", "-">>, <<"A", "N", "D", "A", " ", "G", "E">>, <<"A", "N", "T", "A", " ", "K", "E">>,
    <<"A", "N", "D", "E", "R", "G", "I", "N", "G", "-", "-", "-", "-">>, <<"A", "N", "D", "A", " ">>, <<"A", "N", "T", "A", " ">>,
    <<"A", "N", "D", "E", "R", "S", "E", "T", "Z", "(", "E", "T", ")", "-", "-", "-", "-", "-">>, <<"A", "N", "D", "A", " ">>, <<"A", "N", "T", "A", " ">>,
    <<"A", "N", "D", "E", "R", "Z", "U", "G", "E", "H", "E", "-", "-", "-", "-">>, <<"A", "N", "D", "A", " ", "Z", "U", " ">>, <<"A", "N", "T", "A", " ", "Z", "U", " ">>,
    <<"A", "N", "D", "E", "R", "Z", "U", "S", "E", "T", "Z", "E", "-", "-", "-", "-", "-">>, <<"A", "N", "D", "A", " ", "Z", "U", " ">>, <<"A", "N", "T", "A", " ", "Z", "U", " ">>,
    <<"A", "N", "E", "R", "(", "B", "K", "O", ")", "-", "-", "-", "^", "^">>, <<"A", "N">>, None,
    <<"A", "N", "H", "A", "N", "D", "-", "-", "-", "^", "$">>, <<"A", "N", " ", "H">>, <<"A", "N", " ">>,
    <<"A", "N", "H", "(", "A", "Auml", "E", "I", "O", "Ouml", "U", "Uuml", "Y", ")", "-", "-", "^", "^">>, <<"A", "N">>, None,
    <<"A", "N", "I", "E", "L", "L", "E", "$">>, <<"A", "N", "I", "E", "L">>, <<"A", "N", "I", "L">>,
    <<"A", "N", "I", "E", "L">>, <<"A", "N", "I", "E", "L">>, None,
    <<"A", "N", "S", "T", "E", "L", "L", "E", "-", "-", "-", "-", "^", "$">>, <<"A", "N", " ", "S", "T">>, <<"A", "N", " ", "Z", "T">>,
    <<"A", "N", "T", "I", "^", "^">>, <<"A", "N", "T", "I">>, <<"A", "N", "T", "I">>,
    <<"A", "N", "V", "E", "R", "^", "^">>, <<"A", "N", "F", "A">>, <<"A", "N", "F", "A">>,
    <<"A", "T", "I", "A", "$">>, <<"A", "T", "I", "A">>, <<"A", "T", "I", "A">>,
    <<"A", "T", "I", "A", "(", "N", "S", ")", "-", "-">>, <<"A", "T", "I">>, <<"A", "T", "I">>,
    <<"A", "T", "I", "(", "A", "Auml", "O", "Ouml", "U", "Uuml", ")", "-">>, <<"A", "Z", "I">>, <<"A", "Z", "I">>,
    <<"A", "U", "A", "U", "-", "-">>, <<>>, <<>>,
    <<"A", "U", "E", "R", "E", "$">>, <<"A", "U", "E", "R", "E">>, None,
    <<"A", "U", "E", "R", "E", "(", "N", "S", ")", "-", "$">>, <<"A", "U", "E", "R", "E">>, None,
    <<"A", "U", "E", "R", "E", "(", "A", "I", "O", "U", "Y", ")", "-", "-">>, <<"A", "U", "E", "R">>, None,
    <<"A", "U", "E", "R", "(", "A", "Auml", "I", "O", "Ouml", "U", "Uuml", "Y", ")", "-">>, <<"A", "U", "E", "R">>, None,
    <<"A", "U", "E", "R", "<">>, <<"A", "U", "A">>, <<"A", "U", "A">>,
    <<"A", "U", "F", "^", "^">>, <<"A", "U", "F">>, <<"A", "U", "F">>,
    <<"A", "U", "L", "T", "$">>, <<"O">>, <<"U">>,
    <<"A", "U", "R", "(", "B", "C", "D", "F", "G", "K", "L", "M", "N", "Q", "S", "T", "V", "W", "Z", ")", "-">>, <<"A", "U", "A">>, <<"A", "U", "A">>,
    <<"A", "U", "R", "$">>, <<"A", "U", "A">>, <<"A", "U", "A">>,
    <<"A", "U", "S", "S", "E", "$">>, <<"O", "S">>, <<"U", "Z">>,
    <<"A", "U", "S", "(", "S", "T", ")", "-", "^">>, <<"A", "U", "S">>, <<"A", "U", "S">>,
    <<"A", "U", "S", "^", "^">>, <<"A", "U", "S">>, <<"A", "U", "S">>,
    <<"A", "U", "T", "O", "F", "A", "H", "R", "-", "-", "-", "-">>, <<"A", "U", "T", "O", " ">>, <<"A", "U", "T", "U", " ">>,
    <<"A", "U", "T", "O", "^", "^">>, <<"A", "U", "T", "O">>, <<"A", "U", "T", "U">>,
    <<"A", "U", "X", "(", "I", "Y", ")", "-">>, <<"A", "U", "X">>, <<"A", "U", "X">>,
    <<"A", "U", "X">>, <<"O">>, <<"U">>,
    <<"A", "U">>, <<"A", "U">>, <<"A", "U">>,
    <<"A", "V", "E", "R", "-", "-", "<">>, <<"A", "W">>, None,
    <<"A", "V", "I", "E", "R", "$">>, <<"A", "W", "I", "E">>, <<"A", "F", "I", "E">>,
    <<"A", "V", "(", "E", "Egrave", "Eacute", "Ecirc", "I", ")", "-", "^">>, <<"A", "W">>, None,
    <<"A", "V", "(", "A", "O", "U", ")", "-">>, <<"A", "W">>, None,
    <<"A", "Y", "R", "E", "$">>, <<"E", "I", "R", "E">>, <<"E", "I", "R", "E">>,
    <<"A", "Y", "R", "E", "(", "N", "S", ")", "-", "$">>, <<"E", "I", "R", "E">>, <<"E", "I", "R", "E">>,
    <<"A", "Y", "R", "E", "(", "A", "I", "O", "U", "Y", ")", "-", "-">>, <<"E", "I", "R">>, <<"E", "I", "R">>,
    <<"A", "Y", "R", "(", "A", "Auml", "I", "O", "Ouml", "U", "Uuml", "Y", ")", "-">>, <<"E", "I", "R">>, <<"E", "I", "R">>,
    <<"A", "Y", "R", "<">>, <<"E", "I", "A">>, <<"E", "I", "A">>,
    <<"A", "Y", "E", "R", "-", "-", "<">>, <<"E", "I">>, <<"E", "I">>,
    <<"A", "Y", "(", "A", "Auml", "E", "I", "O", "Ouml", "U", "Uuml", "Y", ")", "-", "-">>, <<"A">>, <<"A">>,
    <<"A", "Euml">>, <<"E">>, <<"E">>,
    <<"A", "(", "I", "J", "Y", ")", "<">>, <<"E", "I">>, <<"E", "I">>,
    <<"B", "A", "B", "Y", "^", "$">>, <<"B", "E", "B", "I">>, <<"B", "E", "B", "I">>,
    <<"B", "A", "B", "(", "I", "Y", ")", "^">>, <<"B", "E", "B", "I">>, <<"B", "E", "B", "I">>,
    <<"B", "E", "A", "U", "^", "$">>, <<"B", "O">>, None,
    <<"B", "E", "A", "(", "B", "C", "M", "N", "R", "U", ")", "-", "^">>, <<"B", "E", "A">>, <<"B", "E", "A">>,
    <<"B", "E", "A", "T", "(", "A", "E", "I", "M", "O", "R", "U", ")", "-", "^">>, <<"B", "E", "A", "T">>, <<"B", "E", "A", "T">>,
    <<"B", "E", "E", "$">>, <<"B", "I">>, <<"B", "I">>,
    <<"B", "E", "I", "G", "E", "^", "$">>, <<"B", "E", "S", "H">>, <<"B", "E", "Z">>,
    <<"B", "E", "N", "O", "I", "T", "-", "-">>, <<"B", "E", "N", "O">>, <<"B", "E", "N", "U">>,
    <<"B", "E", "R", "(", "D", "T", ")", "-">>, <<"B", "E", "R">>, None,
    <<"B", "E", "R", "N", "(", "D", "T", ")", "-">>, <<"B", "E", "R", "N">>, None,
    <<"B", "E", "(", "L", "M", "N", "R", "S", "T", ")", "-", "^">>, <<"B", "E">>, <<"B", "E">>,
    <<"B", "E", "T", "T", "E", "$">>, <<"B", "E", "T">>, <<"B", "E", "T">>,
    <<"B", "E", "V", "O", "R", "^", "$">>, <<"B", "E", "F", "O", "R">>, None,
    <<"B", "I", "C", "$">>, <<"B", "I", "Z">>, <<"B", "I", "Z">>,
    <<"B", "O", "W", "L", "(", "E", "I", ")", "-">>, <<"B", "O", "L">>, <<"B", "U", "L">>,
    <<"B", "P", "(", "A", "Auml", "E", "Egrave", "Eacute", "Ecirc", "I", "Igrave", "Iacute", "Icirc", "O", "Ouml", "R", "U", "Uuml", "Y", ")", "-">>, <<"B">>, <<"B">>,
    <<"B", "R", "I", "N", "G", "E", "N", "D", "-", "-", "-", "-", "-", "^">>, <<"B", "R", "I">>, <<"B", "R", "I">>,
    <<"B", "R", "I", "N", "G", "E", "N", "D", "-", "-", "-", "-", "-">>, <<" ", "B", "R", "I">>, <<" ", "B", "R", "I">>,
    <<"B", "R", "O", "W", "(", "N", "S", ")", "-">>, <<"B", "R", "A", "U">>, <<"B", "R", "A", "U">>,
    <<"B", "U", "D", "G", "E", "T", "7">>, <<"B", "Uuml", "G", "E">>, <<"B", "I", "K", "E">>,
    <<"B", "U", "F", "F", "E", "T", "7">>, <<"B", "Uuml", "F", "E">>, <<"B", "I", "F", "E">>,
    <<"B", "Y", "L", "L", "E", "$">>, <<"B", "I", "L", "E">>, <<"B", "I", "L", "E">>,
    <<"B", "Y", "L", "L", "$">>, <<"B", "I", "L">>, <<"B", "I", "L">>,
    <<"B", "Y", "P", "A", "-", "-", "^">>, <<"B", "E", "I">>, <<"B", "E", "I">>,
    <<"B", "Y", "T", "E", "<">>, <<"B", "E", "I", "T">>, <<"B", "E", "I", "T">>,
    <<"B", "Y", "9", "^">>, <<"B", "Uuml">>, None,
    <<"B", "(", "S", "szlig", "Z", ")", "$">>, <<"B", "S">>, None,
    <<"C", "A", "C", "H", "(", "E", "I", ")", "-", "^">>, <<"K", "E", "S", "H">>, <<"K", "E", "Z">>,
    <<"C", "A", "E", "-", "-">>, <<"Z">>, <<"Z">>,
    <<"C", "A", "(", "I", "Y", ")", "$">>, <<"Z", "E", "I">>, <<"Z", "E", "I">>,
    <<"C", "E", "(", "E", "I", "J", "U", "Y", ")", "-", "-">>, <<"Z">>, <<"Z">>,
    <<"C", "E", "N", "T", "<">>, <<"Z", "E", "N", "T">>, <<"Z", "E", "N", "T">>,
    <<"C", "E", "R", "S", "T", "(", "E", "I", ")", "-", "-", "-", "-", "^">>, <<"K", "E">>, <<"K", "E">>,
    <<"C", "E", "R", "$">>, <<"Z", "A">>, <<"Z", "A">>,
    <<"C", "E", "3">>, <<"Z", "E">>, <<"Z", "E">>,
    <<"C", "H", "'", "S", "$">>, <<"X">>, <<"X">>,
    <<"C", "H", "acute", "S", "$">>, <<"X">>, <<"X">>,
    <<"C", "H", "A", "O", "(", "S", "T", ")", "-">>, <<"K", "A", "O">>, <<"K", "A", "U">>,
    <<"C", "H", "A", "M", "P", "I", "O", "-", "^">>, <<"S", "H", "E", "M", "P", "I">>, <<"Z", "E", "N", "B", "I">>,
    <<"C", "H", "A", "R", "(", "A", "I", ")", "-", "^">>, <<"K", "A", "R">>, <<"K", "A", "R">>,
    <<"C", "H", "A", "U", "(", "C", "D", "F", "S", "V", "W", "X", "Z", ")", "-">>, <<"S", "H", "O">>, <<"Z", "U">>,
    <<"C", "H", "Auml", "(", "C", "F", ")", "-">>, <<"S", "H", "E">>, <<"Z", "E">>,
    <<"C", "H", "E", "(", "C", "F", ")", "-">>, <<"S", "H", "E">>, <<"Z", "E">>,
    <<"C", "H", "E", "M", "-", "^">>, <<"K", "E">>, <<"K", "E">>,
    <<"C", "H", "E", "Q", "U", "E", "<">>, <<"S", "H", "E", "K">>, <<"Z", "E", "K">>,
    <<"C", "H", "I", "(", "C", "F", "G", "P", "V", "W", ")", "-">>, <<"S", "H", "I">>, <<"Z", "I">>,
    <<"C", "H", "(", "A", "E", "U", "Y", ")", "-", "<", "^">>, <<"S", "H">>, <<"Z">>,
    <<"C", "H", "K", "-">>, <<>>, <<>>,
    <<"C", "H", "O", "(", "C", "K", "P", "S", ")", "-", "^">>, <<"S", "H", "O">>, <<"Z", "U">>,
    <<"C", "H", "R", "I", "S", "-">>, <<"K", "R", "I">>, None,
    <<"C", "H", "R", "O", "-">>, <<"K", "R">>, None,
    <<"C", "H", "(", "L", "O", "R", ")", "-", "<", "^">>, <<"K">>, <<"K">>,
    <<"C", "H", "S", "T", "-">>, <<"X">>, <<"X">>,
    <<"C", "H", "(", "S", "szlig", "X", "Z", ")", "3">>, <<"X">>, <<"X">>,
    <<"C", "H", "T", "N", "I", "-", "3">>, <<"C", "H", "N">>, <<"K", "N">>,
    <<"C", "H", "^">>, <<"K">>, <<"K">>,
    <<"C", "H">>, <<"C", "H">>, <<"K">>,
    <<"C", "I", "C", "$">>, <<"Z", "I", "Z">>, <<"Z", "I", "Z">>,
    <<"C", "I", "E", "N", "C", "E", "F", "I", "C", "T", "-", "-", "-", "-">>, <<"E", "I", "E", "N", "S", " ">>, <<"E", "I", "E", "N", "Z", " ">>,
    <<"C", "I", "E", "N", "C", "E", "$">>, <<"E", "I", "E", "N", "S">>, <<"E", "I", "E", "N", "Z">>,
    <<"C", "I", "E", "R", "$">>, <<"Z", "I", "E">>, <<"Z", "I", "E">>,
    <<"C", "Y", "B", "-", "^">>, <<"Z", "E", "I">>, <<"Z", "E", "I">>,
    <<"C", "Y", "9", "^">>, <<"Z", "Uuml">>, <<"Z", "I">>,
    <<"C", "(", "I", "J", "Y", ")", "-", "<", "3">>, <<"Z">>, <<"Z">>,
    <<"C", "L", "O", "W", "N", "-">>, <<"K", "L", "A", "U">>, <<"K", "L", "A", "U">>,
    <<"C", "C", "H">>, <<"Z">>, <<"Z">>,
    <<"C", "C", "E", "-">>, <<"X">>, <<"X">>,
    <<"C", "(", "C", "K", ")", "-">>, <<>>, <<>>,
    <<"C", "L", "A", "U", "D", "E", "T", "-", "-", "-">>, <<"K", "L", "O">>, <<"K", "L", "U">>,
    <<"C", "L", "A", "U", "D", "I", "N", "E", "^", "$">>, <<"K", "L", "O", "D", "I", "N">>, <<"K", "L", "U", "T", "I", "N">>,
    <<"C", "O", "A", "C", "H">>, <<"K", "O", "S", "H">>, <<"K", "U", "Z">>,
    <<"C", "O", "L", "E", "$">>, <<"K", "O", "L">>, <<"K", "U", "L">>,
    <<"C", "O", "U", "C", "H">>, <<"K", "A", "U", "S", "H">>, <<"K", "A", "U", "Z">>,
    <<"C", "O", "W">>, <<"K", "A", "U">>, <<"K", "A", "U">>,
    <<"C", "Q", "U", "E", "S", "$">>, <<"K">>, <<"K">>,
    <<"C", "Q", "U", "E">>, <<"K">>, <<"K">>,
    <<"C", "R", "A", "S", "H", "-", "-", "9">>, <<"K", "R", "E">>, <<"K", "R", "E">>,
    <<"C", "R", "E", "A", "T", "-", "^">>, <<"K", "R", "E", "A">>, <<"K", "R", "E", "A">>,
    <<"C", "S", "T">>, <<"X", "T">>, <<"X", "T">>,
    <<"C", "S", "<", "^">>, <<"Z">>, <<"Z">>,
    <<"C", "(", "S", "szlig", "X", ")">>, <<"X">>, <<"X">>,
    <<"C", "T", "'", "S", "$">>, <<"X">>, <<"X">>,
    <<"C", "T", "(", "S", "szlig", "X", "Z", ")">>, <<"X">>, <<"X">>,
    <<"C", "Z", "<">>, <<"Z">>, <<"Z">>,
    <<"C", "(", "Egrave", "Eacute", "Ecirc", "Igrave", "Iacute", "Icirc", "Yacute", ")", "3">>, <<"Z">>, <<"Z">>,
    <<"C", ".", "^">>, <<"C", ".">>, <<"C", ".">>,
    <<"C", "Auml", "-">>, <<"Z">>, <<"Z">>,
    <<"C", "Uuml", "$">>, <<"Z", "Uuml">>, <<"Z", "I">>,
    <<"C", "'", "S", "$">>, <<"X">>, <<"X">>,
    <<"C", "<">>, <<"K">>, <<"K">>,
    <<"D", "A", "H", "E", "R", "^", "$">>, <<"D", "A", "H", "E", "R">>, None,
    <<"D", "A", "R", "A", "U", "F", "F", "O", "L", "G", "E", "-", "-", "-", "-", "-">>, <<"D", "A", "R", "A", "U", "F", " ">>, <<"T", "A", "R", "A", "U", "F", " ">>,
    <<"D", "A", "V", "O", "(", "N", "R", ")", "-", "^", "$">>, <<"D", "A", "F", "O">>, <<"T", "A", "F", "U">>,
    <<"D", "D", "(", "S", "Z", ")", "-", "-", "<">>, <<>>, <<>>,
    <<"D", "D", "9">>, <<"D">>, None,
    <<"D", "E", "P", "O", "T", "7">>, <<"D", "E", "P", "O">>, <<"T", "E", "B", "U">>,
    <<"D", "E", "S", "I", "G", "N">>, <<"D", "I", "S", "E", "I", "N">>, <<"T", "I", "Z", "E", "I", "N">>,
    <<"D", "E", "(", "L", "M", "N", "R", "S", "T", ")", "-", "3", "^">>, <<"D", "E">>, <<"T", "E">>,
    <<"D", "E", "T", "T", "E", "$">>, <<"D", "E", "T">>, <<"T", "E", "T">>,
    <<"D", "H", "$">>, <<"T">>, None,
    <<"D", "I", "C", "$">>, <<"D", "I", "Z">>, <<"T", "I", "Z">>,
    <<"D", "I", "D", "R", "-", "^">>, <<"D", "I", "T">>, None,
    <<"D", "I", "E", "D", "R", "-", "^">>, <<"D", "I", "T">>, None,
    <<"D", "J", "(", "A", "E", "I", "O", "U", ")", "-", "^">>, <<"I">>, <<"I">>,
    <<"D", "M", "I", "T", "R", "-", "^">>, <<"D", "I", "M", "I", "T">>, <<"T", "I", "N", "I", "T">>,
    <<"D", "R", "Y", "9", "^">>, <<"D", "R", "Uuml">>, None,
    <<"D", "T", "-">>, <<>>, <<>>,
    <<"D", "U", "I", "S", "-", "^">>, <<"D", "Uuml">>, <<"T", "I">>,
    <<"D", "U", "R", "C", "H", "^", "^">>, <<"D", "U", "R", "C", "H">>, <<"T", "U", "R", "K">>,
    <<"D", "V", "A", "$">>, <<"T", "W", "A">>, None,
    <<"D", "Y", "9", "^">>, <<"D", "Uuml">>, None,
    <<"D", "Y", "S", "$">>, <<"D", "I", "S">>, None,
    <<"D", "S", "(", "C", "H", ")", "-", "-", "<">>, <<"T">>, <<"T">>,
    <<"D", "S", "T">>, <<"Z", "T">>, <<"Z", "T">>,
    <<"D", "Z", "S", "(", "C", "H", ")", "-", "-">>, <<"T">>, <<"T">>,
    <<"D", "(", "S", "szlig", "Z", ")">>, <<"Z">>, <<"Z">>,
    <<"D", "(", "A", "Auml", "E", "I", "O", "Ouml", "R", "U", "Uuml", "Y", ")", "-">>, <<"D">>, None,
    <<"D", "(", "Agrave", "Aacute", "Acirc", "Atilde", "Aring", "Egrave", "Eacute", "Ecirc", "Igrave", "Iacute", "Icirc", "Ugrave", "Uacute", "Ucirc", ")", "-">>, <<"D">>, None,
    <<"D", "'", "H", "^">>, <<"D">>, <<"T">>,
    <<"D", "acute", "H", "^">>, <<"D">>, <<"T">>,
    <<"D", "grave", "H", "^">>, <<"D">>, <<"T">>,
    <<"D", "'", "S", "3", "$">>, <<"Z">>, <<"Z">>,
    <<"D", "acute", "S", "3", "$">>, <<"Z">>, <<"Z">>,
    <<"D", "^">>, <<"D">>, None,
    <<"D">>, <<"T">>, <<"T">>,
    <<"E", "A", "U", "L", "T", "$">>, <<"O">>, <<"U">>,
    <<"E", "A", "U", "X", "$">>, <<"O">>, <<"U">>,
    <<"E", "A", "U">>, <<"O">>, <<"U">>,
    <<"E", "A", "V">>, <<"I", "W">>, <<"I", "F">>,
    <<"E", "A", "S", "3", "$">>, <<"E", "A", "S">>, None,
    <<"E", "A", "(", "A", "Auml", "E", "I", "O", "Ouml", "Uuml", "Y", ")", "-", "3">>, <<"E", "A">>, <<"E", "A">>,
    <<"E", "A", "3", "$">>, <<"E", "A">>, <<"E", "A">>,
    <<"E", "A", "3">>, <<"I">>, <<"I">>,
    <<"E", "B", "E", "N", "S", "O", "^", "$">>, <<"E", "B", "N", "S", "O">>, <<"E", "B", "N", "Z", "U">>,
    <<"E", "B", "E", "N", "S", "O", "^", "^">>, <<"E", "B", "N", "S", "O", " ">>, <<"E", "B", "N", "Z", "U", " ">>,
    <<"E", "B", "E", "N", "^", "^">>, <<"E", "B", "N">>, <<"E", "B", "N">>,
    <<"E", "E", "9">>, <<"E">>, <<"E">>,
    <<"E", "G", "L", "-", "1">>, <<"E", "K">>, None,
    <<"E", "H", "E", "(", "I", "U", "Y", ")", "-", "-", "1">>, <<"E", "H">>, None,
    <<"E", "H", "U", "N", "G", "-", "-", "-", "1">>, <<"E">>, None,
    <<"E", "H", "(", "A", "Auml", "I", "O", "Ouml", "U", "Uuml", "Y", ")", "-", "1">>, <<"E", "H">>, None,
    <<"E", "I", "E", "I", "-", "-">>, <<>>, <<>>,
    <<"E", "I", "E", "R", "E", "^", "$">>, <<"E", "I", "E", "R", "E">>, None,
    <<"E", "I", "E", "R", "E", "$">>, <<"E", "I", "E", "R", "E">>, None,
    <<"E", "I", "E", "R", "E", "(", "N", "S", ")", "-", "$">>, <<"E", "I", "E", "R", "E">>, None,
    <<"E", "I", "E", "R", "E", "(", "A", "I", "O", "U", "Y", ")", "-", "-">>, <<"E", "I", "E", "R">>, None,
    <<"E", "I", "E", "R", "(", "A", "Auml", "I", "O", "Ouml", "U", "Uuml", "Y", ")", "-">>, <<"E", "I", "E", "R">>, None,
    <<"E", "I", "E", "R", "<">>, <<"E", "I", "A">>, None,
    <<"E", "I", "G", "L", "-", "1">>, <<"E", "I", "K">>, None,
    <<"E", "I", "G", "H", "$">>, <<"E", "I">>, <<"E", "I">>,
    <<"E", "I", "H", "-", "-">>, <<"E">>, <<"E">>,
    <<"E", "I", "L", "L", "E", "$">>, <<"E", "I">>, <<"E", "I">>,
    <<"E", "I", "R", "(", "B", "C", "D", "F", "G", "K", "L", "M", "N", "Q", "S", "T", "V", "W", "Z", ")", "-">>, <<"E", "I", "A">>, <<"E", "I", "A">>,
    <<"E", "I", "R", "$">>, <<"E", "I", "A">>, <<"E", "I", "A">>,
    <<"E", "I", "T", "R", "A", "U", "B", "E", "N", "-", "-", "-", "-", "-", "-">>, <<"E", "I", "T", " ">>, <<"E", "I", "T", " ">>,
    <<"E", "I">>, <<"E", "I">>, <<"E", "I">>,
    <<"E", "J", "$">>, <<"E", "I">>, <<"E", "I">>,
    <<"E", "L", "I", "Z", "^">>, <<"E", "L", "I", "S">>, None,
    <<"E", "L", "Z", "^">>, <<"E", "L", "S">>, None,
    <<"E", "L", "-", "^">>, <<"E">>, <<"E">>,
    <<"E", "L", "A", "N", "G", "-", "-", "-", "-", "1">>, <<"E">>, <<"E">>,
    <<"E", "L", "(", "D", "K", "L", ")", "-", "-", "1">>, <<"E">>, <<"E">>,
    <<"E", "L", "(", "M", "N", "T", ")", "-", "-", "1", "$">>, <<"E">>, <<"E">>,
    <<"E", "L", "Y", "N", "E", "$">>, <<"E", "L", "I", "N", "E">>, <<"E", "L", "I", "N", "E">>,
    <<"E", "L", "Y", "N", "$">>, <<"E", "L", "I", "N">>, <<"E", "L", "I", "N">>,
    <<"E", "L", "(", "A", "Auml", "E", "Egrave", "Eacute", "Ecirc", "I", "Igrave", "Iacute", "Icirc", "O", "Ouml", "U", "Uuml", "Y", ")", "-", "1">>, <<"E", "L">>, <<"E", "L">>,
    <<"E", "L", "-", "1">>, <<"L">>, <<"L">>,
    <<"E", "M", "-", "^">>, None, <<"E">>,
    <<"E", "M", "(", "D", "F", "K", "M", "P", "Q", "T", ")", "-", "-", "1">>, None, <<"E">>,
    <<"E", "M", "(", "A", "Auml", "E", "Egrave", "Eacute", "Ecirc", "I", "Igrave", "Iacute", "Icirc", "O", "Ouml", "U", "Uuml", "Y", ")", "-", "-", "1">>, None, <<"E">>,
    <<"E", "M", "-", "1">>, None, <<"N">>,
    <<"E", "N", "G", "A", "G", "-", "^">>, <<"A", "N", "G", "A">>, <<"A", "N", "K", "A">>,
    <<"E", "N", "-", "^">>, <<"E">>, <<"E">>,
    <<"E", "N", "T", "U", "E", "L">>, <<"E", "N", "T", "U", "E", "L">>, None,
    <<"E", "N", "(", "C", "D", "G", "K", "Q", "S", "T", "Z", ")", "-", "-", "1">>, <<"E">>, <<"E">>,
    <<"E", "N", "(", "A", "Auml", "E", "Egrave", "Eacute", "Ecirc", "I", "Igrave", "Iacute", "Icirc", "N", "O", "Ouml", "U", "Uuml", "Y", ")", "-", "1">>, <<"E", "N">>, <<"E", "N">>,
    <<"E", "N", "-", "1">>, <<>>, <<>>,
    <<"E", "R", "H", "(", "A", "Auml", "E", "I", "O", "Ouml", "U", "Uuml", ")", "-", "^">>, <<"E", "R", "H">>, <<"E", "R">>,
    <<"E", "R", "-", "^">>, <<"E">>, <<"E">>,
    <<"E", "R", "R", "E", "G", "E", "N", "D", "-", "-", "-", "-", "-">>, <<" ", "E", "R">>, <<" ", "E", "R">>,
    <<"E", "R", "T", "1", "$">>, <<"A", "T">>, None,
    <<"E", "R", "(", "D", "G", "L", "K", "M", "N", "R", "Q", "T", "Z", "szlig", ")", "-", "1">>, <<"E", "R">>, None,
    <<"E", "R", "(", "A", "Auml", "E", "Egrave", "Eacute", "Ecirc", "I", "Igrave", "Iacute", "Icirc", "O", "Ouml", "U", "Uuml", "Y", ")", "-", "1">>, <<"E", "R">>, <<"A">>,
    <<"E", "R", "1", "$">>, <<"A">>, <<"A">>,
    <<"E", "R", "<", "1">>, <<"A">>, <<"A">>,
    <<"E", "T", "A", "T", "7">>, <<"E", "T", "A">>, <<"E", "T", "A">>,
    <<"E", "T", "I", "(", "A", "Auml", "O", "Ouml", "Uuml", "U", ")", "-">>, <<"E", "Z", "I">>, <<"E", "Z", "I">>,
    <<"E", "U", "E", "R", "E", "$">>, <<"E", "U", "E", "R", "E">>, None,
    <<"E", "U", "E", "R", "E", "(", "N", "S", ")", "-", "$">>, <<"E", "U", "E", "R", "E">>, None,
    <<"E", "U", "E", "R", "E", "(", "A", "I", "O", "U", "Y", ")", "-", "-">>, <<"E", "U", "E", "R">>, None,
    <<"E", "U", "E", "R", "(", "A", "Auml", "I", "O", "Ouml", "U", "Uuml", "Y", ")", "-">>, <<"E", "U", "E", "R">>, None,
    <<"E", "U", "E", "R", "<">>, <<"E", "U", "A">>, None,
    <<"E", "U", "E", "U", "-", "-">>, <<>>, <<>>,
    <<"E", "U", "I", "L", "L", "E", "$">>, <<"Ouml">>, <<"Ouml">>,
    <<"E", "U", "R", "$">>, <<"Ouml", "R">>, <<"Ouml", "R">>,
    <<"E", "U", "X">>, <<"Ouml">>, <<"Ouml">>,
    <<"E", "U", "S", "Z", "$">>, <<"E", "U", "S">>, None,
    <<"E", "U", "T", "Z", "$">>, <<"E", "U", "S">>, None,
    <<"E", "U", "Y", "S", "$">>, <<"E", "U", "S">>, <<"E", "U", "Z">>,
    <<"E", "U", "Z", "$">>, <<"E", "U", "S">>, None,
    <<"E", "U">>, <<"E", "U">>, <<"E", "U">>,
    <<"E", "V", "E", "R", "-", "-", "<", "1">>, <<"E", "W">>, None,
    <<"E", "V", "(", "Auml", "O", "Ouml", "U", "Uuml", ")", "-", "1">>, <<"E", "W">>, None,
    <<"E", "Y", "E", "R", "<">>, <<"E", "I", "A">>, <<"E", "I", "A">>,
    <<"E", "Y", "<">>, <<"E", "I">>, <<"E", "I">>,
    <<"F", "A", "C", "E", "T", "T", "E">>, <<"F", "A", "S", "E", "T">>, <<"F", "A", "Z", "E", "T">>,
    <<"F", "A", "N", "S", "-", "-", "^", "$">>, <<"F", "E">>, <<"F", "E">>,
    <<"F", "A", "N", "-", "^", "$">>, <<"F", "E">>, <<"F", "E">>,
    <<"F", "A", "U", "L", "T", "-">>, <<"F", "O", "L">>, <<"F", "U", "L">>,
    <<"F", "E", "E", "(", "D", "L", ")", "-">>, <<"F", "I">>, <<"F", "I">>,
    <<"F", "E", "H", "L", "E", "R">>, <<"F", "E", "L", "A">>, <<"F", "E", "L", "A">>,
    <<"F", "E", "(", "L", "M", "N", "R", "S", "T", ")", "-", "3", "^">>, <<"F", "E">>, <<"F", "E">>,
    <<"F", "O", "E", "R", "D", "E", "R", "N", "-", "-", "-", "^">>, <<"F", "Ouml", "R", "D">>, <<"F", "Ouml", "R", "T">>,
    <<"F", "O", "E", "R", "D", "E", "R", "N", "-", "-", "-">>, <<" ", "F", "Ouml", "R", "D">>, <<" ", "F", "Ouml", "R", "T">>,
    <<"F", "O", "N", "D", "7">>, <<"F", "O", "N">>, <<"F", "U", "N">>,
    <<"F", "R", "A", "I", "N", "$">>, <<"F", "R", "A">>, <<"F", "R", "A">>,
    <<"F", "R", "I", "S", "E", "U", "(", "R", "S", ")", "-">>, <<"F", "R", "I", "S", "Ouml">>, <<"F", "R", "I", "Z", "Ouml">>,
    <<"F", "Y", "9", "^">>, <<"F", "Uuml">>, None,
    <<"F", "Ouml", "R", "D", "E", "R", "N", "-", "-", "-", "^">>, <<"F", "Ouml", "R", "D">>, <<"F", "Ouml", "R", "T">>,
    <<"F", "Ouml", "R", "D", "E", "R", "N", "-", "-", "-">>, <<" ", "F", "Ouml", "R", "D">>, <<" ", "F", "Ouml", "R", "T">>,
    <<"G", "A", "G", "S", "^", "$">>, <<"G", "E", "X">>, <<"K", "E", "X">>,
    <<"G", "A", "G", "^", "$">>, <<"G", "E", "K">>, <<"K", "E", "K">>,
    <<"G", "D">>, <<"K", "T">>, <<"K", "T">>,
    <<"G", "E", "G", "E", "N", "^", "^">>, <<"G", "E", "G", "N">>, <<"K", "E", "K", "N">>,
    <<"G", "E", "G", "E", "N", "G", "E", "K", "O", "M", "-", "-", "-", "-", "-">>, <<"G", "E", "G", "N", " ">>, <<"K", "E", "K", "N", " ">>,
    <<"G", "E", "G", "E", "N", "G", "E", "S", "E", "T", "-", "-", "-", "-", "-">>, <<"G", "E", "G", "N", " ">>, <<"K", "E", "K", "N", " ">>,
    <<"G", "E", "G", "E", "N", "K", "O", "M", "M", "E", "-", "-", "-", "-", "-">>, <<"G", "E", "G", "N", " ">>, <<"K", "E", "K", "N", " ">>,
    <<"G", "E", "G", "E", "N", "Z", "U", "K", "O", "M", "-", "-", "-">>, <<"G", "E", "G", "N", " ", "Z", "U", " ">>, <<"K", "E", "K", "N", " ", "Z", "U", " ">>,
    <<"G", "E", "N", "D", "E", "T", "W", "A", "S", "-", "-", "-", "-", "-", "$">>, <<"G", "E", "N", "T", " ">>, <<"K", "E", "N", "T", " ">>,
    <<"G", "E", "N", "R", "E">>, <<"I", "O", "R", "E">>, <<"I", "U", "R", "E">>,
    <<"G", "E", "(", "L", "M", "N", "R", "S", "T", ")", "-", "3", "^">>, <<"G", "E">>, <<"K", "E">>,
    <<"G", "E", "R", "(", "D", "K", "T", ")", "-">>, <<"G", "E", "R">>, None,
    <<"G", "E", "T", "T", "E", "$">>, <<"G", "E", "T">>, <<"K", "E", "T">>,
    <<"G", "G", "F", ".">>, <<"G", "F", ".">>, None,
    <<"G", "G", "-">>, <<>>, <<>>,
    <<"G", "H">>, <<"G">>, None,
    <<"G", "I", "(", "A", "O", "U", ")", "-", "^">>, <<"I">>, <<"I">>,
    <<"G", "I", "O", "N", "-", "3">>, <<"K", "I", "O">>, <<"K", "I", "U">>,
    <<"G", "(", "C", "K", ")", "-">>, <<>>, <<>>,
    <<"G", "J", "(", "A", "E", "I", "O", "U", ")", "-", "^">>, <<"I">>, <<"I">>,
    <<"G", "M", "B", "H", "^", "$">>, <<"G", "M", "B", "H">>, <<"G", "M", "B", "H">>,
    <<"G", "N", "A", "C", "$">>, <<"N", "I", "A", "K">>, <<"N", "I", "A", "K">>,
    <<"G", "N", "O", "N", "$">>, <<"N", "I", "O", "N">>, <<"N", "I", "U", "N">>,
    <<"G", "N", "$">>, <<"N">>, <<"N">>,
    <<"G", "O", "N", "C", "A", "L", "-", "^">>, <<"G", "O", "N", "Z", "A">>, <<"K", "U", "N", "Z", "A">>,
    <<"G", "R", "Y", "9", "^">>, <<"G", "R", "Uuml">>, None,
    <<"G", "(", "S", "szlig", "X", "Z", ")", "-", "<">>, <<"K">>, <<"K">>,
    <<"G", "U", "C", "K", "-">>, <<"K", "U">>, <<"K", "U">>,
    <<"G", "U", "I", "S", "E", "P", "-", "^">>, <<"I", "U", "S", "E">>, <<"I", "U", "Z", "E">>,
    <<"G", "U", "I", "-", "^">>, <<"G">>, <<"K">>,
    <<"G", "U", "T", "A", "U", "S", "S", "E", "H", "-", "-", "-", "-", "-", "-", "^">>, <<"G", "U", "T", " ">>, <<"K", "U", "T", " ">>,
    <<"G", "U", "T", "G", "E", "H", "E", "N", "D", "-", "-", "-", "-", "-", "-", "^">>, <<"G", "U", "T", " ">>, <<"K", "U", "T", " ">>,
    <<"G", "Y", "9", "^">>, <<"G", "Uuml">>, None,
    <<"G", "(", "A", "Auml", "E", "I", "L", "O", "Ouml", "R", "U", "Uuml", "Y", ")", "-">>, <<"G">>, None,
    <<"G", "(", "Agrave", "Aacute", "Acirc", "Atilde", "Aring", "Egrave", "Eacute", "Ecirc", "Igrave", "Iacute", "Icirc", "Ugrave", "Uacute", "Ucirc", ")", "-">>, <<"G">>, None,
    <<"G", "'", "S", "$">>, <<"X">>, <<"X">>,
    <<"G", "acute", "S", "$">>, <<"X">>, <<"X">>,
    <<"G", "^">>, <<"G">>, None,
    <<"G">>, <<"K">>, <<"K">>,
    <<"H", "A", "(", "H", "I", "U", "Y", ")", "-", "-", "1">>, <<"H">>, None,
    <<"H", "A", "N", "D", "V", "O", "L", "-", "-", "-", "^">>, <<"H", "A", "N", "T", " ">>, <<"A", "N", "T", " ">>,
    <<"H", "A", "N", "N", "O", "V", "E", "-", "^">>, <<"H", "A", "N", "O", "F">>, None,
    <<"H", "A", "V", "E", "N", "7", "$">>, <<"H", "A", "F", "N">>, None,
    <<"H", "E", "A", "D", "-">>, <<"H", "E">>, <<"E">>,
    <<"H", "E", "L", "I", "E", "G", "E", "N", "-", "-", "-", "-", "-", "-">>, <<"E", " ">>, <<"E", " ">>,
    <<"H", "E", "S", "T", "E", "H", "E", "N", "-", "-", "-", "-", "-", "-">>, <<"E", " ">>, <<"E", " ">>,
    <<"H", "E", "(", "L", "M", "N", "R", "S", "T", ")", "-", "3", "^">>, <<"H", "E">>, <<"E">>,
    <<"H", "E", "(", "L", "M", "N", ")", "-", "1">>, <<"E">>, <<"E">>,
    <<"H", "E", "U", "R", "1", "$">>, <<"Ouml", "R">>, <<"Ouml", "R">>,
    <<"H", "E", "(", "H", "I", "U", "Y", ")", "-", "-", "1">>, <<"H">>, None,
    <<"H", "I", "H", "(", "A", "Auml", "E", "I", "O", "Ouml", "U", "Uuml", "Y", ")", "-", "1">>, <<"I", "H">>, None,
    <<"H", "L", "H", "(", "A", "Auml", "E", "I", "O", "Ouml", "U", "Uuml", "Y", ")", "-", "1">>, <<"L", "H">>, None,
    <<"H", "M", "H", "(", "A", "Auml", "E", "I", "O", "Ouml", "U", "Uuml", "Y", ")", "-", "1">>, <<"M", "H">>, None,
    <<"H", "N", "H", "(", "A", "Auml", "E", "I", "O", "Ouml", "U", "Uuml", "Y", ")", "-", "1">>, <<"N", "H">>, None,
    <<"H", "O", "B", "B", "Y", "9", "^">>, <<"H", "O", "B", "I">>, None,
    <<"H", "O", "C", "H", "B", "E", "G", "A", "B", "-", "-", "-", "-", "-", "^">>, <<"H", "O", "C", "H", " ">>, <<"U", "K", " ">>,
    <<"H", "O", "C", "H", "T", "A", "L", "E", "N", "-", "-", "-", "-", "-", "^">>, <<"H", "O", "C", "H", " ">>, <<"U", "K", " ">>,
    <<"H", "O", "C", "H", "Z", "U", "F", "R", "I", "-", "-", "-", "-", "-", "^">>, <<"H", "O", "C", "H", " ">>, <<"U", "K", " ">>,
    <<"H", "O", "(", "H", "I", "Y", ")", "-", "-", "1">>, <<"H">>, None,
    <<"H", "R", "H", "(", "A", "Auml", "E", "I", "O", "Ouml", "U", "Uuml", "Y", ")", "-", "1">>, <<"R", "H">>, None,
    <<"H", "U", "H", "(", "A", "Auml", "E", "I", "O", "Ouml", "U", "Uuml", "Y", ")", "-", "1">>, <<"U", "H">>, None,
    <<"H", "U", "I", "S", "^", "^">>, <<"H", "Uuml", "S">>, <<"I", "Z">>,
    <<"H", "U", "I", "S", "$">>, <<"Uuml", "S">>, <<"I", "Z">>,
    <<"H", "U", "I", "-", "-", "1">>, <<"H">>, None,
    <<"H", "Y", "G", "I", "E", "N", "^">>, <<"H", "Uuml", "K", "I", "E", "N">>, None,
    <<"H", "Y", "9", "^">>, <<"H", "Uuml">>, None,
    <<"H", "Y", "(", "B", "D", "G", "M", "N", "P", "S", "T", ")", "-">>, <<"Uuml">>, None,
    <<"H", ".", "^">>, None, <<"H", ".">>,
    <<"H", "Auml", "U", "-", "-", "1">>, <<"H">>, None,
    <<"H", "^">>, <<"H">>, <<>>,
    <<"H">>, <<>>, <<>>,
    <<"I", "C", "H", "E", "L", "L", "-", "-", "-">>, <<"I", "S", "H">>, <<"I", "Z">>,
    <<"I", "C", "H", "I", "$">>, <<"I", "S", "H", "I">>, <<"I", "Z", "I">>,
    <<"I", "E", "C", "$">>, <<"I", "Z">>, <<"I", "Z">>,
    <<"I", "E", "D", "E", "N", "S", "T", "E", "L", "L", "E", "-", "-", "-", "-", "-", "-">>, <<"I", "D", "N", " ">>, <<"I", "T", "N", " ">>,
    <<"I", "E", "I", "-", "3">>, <<>>, <<>>,
    <<"I", "E", "L", "L", "3">>, <<"I", "E", "L">>, <<"I", "E", "L">>,
    <<"I", "E", "N", "N", "E", "$">>, <<"I", "N">>, <<"I", "N">>,
    <<"I", "E", "R", "R", "E", "$">>, <<"I", "E", "R">>, <<"I", "E", "R">>,
    <<"I", "E", "R", "Z", "U", "L", "A", "N", "-", "-", "-">>, <<"I", "R", " ", "Z", "U", " ">>, <<"I", "R", " ", "Z", "U", " ">>,
    <<"I", "E", "T", "T", "E", "$">>, <<"I", "T">>, <<"I", "T">>,
    <<"I", "E", "U">>, <<"I", "Ouml">>, <<"I", "Ouml">>,
    <<"I", "E", "<", "4">>, <<"I">>, <<"I">>,
    <<"I", "G", "L", "-", "1">>, <<"I", "K">>, None,
    <<"I", "G", "H", "T", "3", "$">>, <<"E", "I", "T">>, <<"E", "I", "T">>,
    <<"I", "G", "N", "I", "(", "E", "O", ")", "-">>, <<"I", "N", "I">>, <<"I", "N", "I">>,
    <<"I", "G", "N", "(", "A", "E", "O", "U", ")", "-", "$">>, <<"I", "N", "I">>, <<"I", "N", "I">>,
    <<"I", "H", "E", "R", "(", "D", "G", "L", "K", "R", "T", ")", "-", "-", "1">>, <<"I", "H", "E">>, None,
    <<"I", "H", "E", "(", "I", "U", "Y", ")", "-", "-">>, <<"I", "H">>, None,
    <<"I", "H", "(", "A", "I", "O", "Ouml", "U", "Uuml", "Y", ")", "-">>, <<"I", "H">>, None,
    <<"I", "J", "(", "A", "O", "U", ")", "-">>, <<"I">>, <<"I">>,
    <<"I", "J", "$">>, <<"I">>, <<"I">>,
    <<"I", "J", "<">>, <<"E", "I">>, <<"E", "I">>,
    <<"I", "K", "O", "L", "E", "$">>, <<"I", "K", "O", "L">>, <<"I", "K", "U", "L">>,
    <<"I", "L", "L", "A", "N", "(", "S", "T", "Z", ")", "-", "-", "4">>, <<"I", "L", "I", "A">>, <<"I", "L", "I", "A">>,
    <<"I", "L", "L", "A", "R", "(", "D", "T", ")", "-", "-", "4">>, <<"I", "L", "I", "A">>, <<"I", "L", "I", "A">>,
    <<"I", "M", "S", "T", "A", "N", "-", "-", "-", "-", "^">>, <<"I", "M", " ">>, <<"I", "N", " ">>,
    <<"I", "N", "D", "E", "L", "E", "R", "R", "E", "G", "E", "-", "-", "-", "-", "-", "-">>, <<"I", "N", "D", "L", " ">>, <<"I", "N", "T", "L", " ">>,
    <<"I", "N", "F", "R", "A", "G", "E", "-", "-", "-", "-", "-", "^", "$">>, <<"I", "N", " ">>, <<"I", "N", " ">>,
    <<"I", "N", "T", "E", "R", "N", "(", "A", "O", "U", ")", "-", "^">>, <<"I", "N", "T", "A", "N">>, <<"I", "N", "T", "A", "N">>,
    <<"I", "N", "V", "E", "R", "-">>, <<"I", "N", "W", "E">>, <<"I", "N", "F", "E">>,
    <<"I", "T", "I", "(", "A", "Auml", "I", "O", "Ouml", "U", "Uuml", ")", "-">>, <<"I", "Z", "I">>, <<"I", "Z", "I">>,
    <<"I", "U", "S", "Z", "$">>, <<"I", "U", "S">>, None,
    <<"I", "U", "T", "Z", "$">>, <<"I", "U", "S">>, None,
    <<"I", "U", "Z", "$">>, <<"I", "U", "S">>, None,
    <<"I", "V", "E", "R", "-", "-", "<">>, <<"I", "W">>, None,
    <<"I", "V", "I", "E", "R", "$">>, <<"I", "W", "I", "E">>, <<"I", "F", "I", "E">>,
    <<"I", "V", "(", "Auml", "O", "Ouml", "U", "Uuml", ")", "-">>, <<"I", "W">>, None,
    <<"I", "V", "<", "3">>, <<"I", "W">>, None,
    <<"I", "Y", "2">>, <<"I">>, None,
    <<"I", "(", "Egrave", "Eacute", "Ecirc", ")", "<", "4">>, <<"I">>, <<"I">>,
    <<"J", "A", "V", "I", "E", "-", "-", "-", "<", "^">>, <<"Z", "A">>, <<"Z", "A">>,
    <<"J", "E", "A", "N", "S", "^", "$">>, <<"J", "I", "N", "S">>, <<"I", "N", "Z">>,
    <<"J", "E", "A", "N", "N", "E", "^", "$">>, <<"I", "A", "N">>, <<"I", "A", "N">>,
    <<"J", "E", "A", "N", "-", "^">>, <<"I", "A">>, <<"I", "A">>,
    <<"J", "E", "R", "-", "^">>, <<"I", "E">>, <<"I", "E">>,
    <<"J", "E", "(", "L", "M", "N", "S", "T", ")", "-">>, <<"I", "E">>, <<"I", "E">>,
    <<"J", "I", "^">>, <<"J", "I">>, None,
    <<"J", "O", "R", "(", "G", "K", ")", "^", "$">>, <<"I", "Ouml", "R", "K">>, <<"I", "Ouml", "R", "K">>,
    <<"J">>, <<"I">>, <<"I">>,
    <<"K", "C", "(", "Auml", "E", "I", "J", ")", "-">>, <<"X">>, <<"X">>,
    <<"K", "D">>, <<"K", "T">>, None,
    <<"K", "E", "(", "L", "M", "N", "R", "S", "T", ")", "-", "3", "^">>, <<"K", "E">>, <<"K", "E">>,
    <<"K", "G", "(", "A", "Auml", "E", "I", "L", "O", "Ouml", "R", "U", "Uuml", "Y", ")", "-">>, <<"K">>, None,
    <<"K", "H", "<", "^">>, <<"K">>, <<"K">>,
    <<"K", "I", "C", "$">>, <<"K", "I", "Z">>, <<"K", "I", "Z">>,
    <<"K", "L", "E", "(", "L", "M", "N", "R", "S", "T", ")", "-", "3", "^">>, <<"K", "L", "E">>, <<"K", "L", "E">>,
    <<"K", "O", "T", "E", "L", "E", "-", "^">>, <<"K", "O", "T", "L">>, <<"K", "U", "T", "L">>,
    <<"K", "R", "E", "A", "T", "-", "^">>, <<"K", "R", "E", "A">>, <<"K", "R", "E", "A">>,
    <<"K", "R", "Uuml", "S", "(", "T", "Z", ")", "-", "-", "^">>, <<"K", "R", "I">>, None,
    <<"K", "R", "Y", "S", "(", "T", "Z", ")", "-", "-", "^">>, <<"K", "R", "I">>, None,
    <<"K", "R", "Y", "9", "^">>, <<"K", "R", "Uuml">>, None,
    <<"K", "S", "C", "H", "-", "-", "-">>, <<"K">>, <<"K">>,
    <<"K", "S", "H", "-", "-">>, <<"K">>, <<"K">>,
    <<"K", "(", "S", "szlig", "X", "Z", ")", "7">>, <<"X">>, <<"X">>,
    <<"K", "T", "'", "S", "$">>, <<"X">>, <<"X">>,
    <<"K", "T", "I", "(", "A", "I", "O", "U", ")", "-", "3">>, <<"X", "I">>, <<"X", "I">>,
    <<"K", "T", "(", "S", "szlig", "X", "Z", ")">>, <<"X">>, <<"X">>,
    <<"K", "Y", "9", "^">>, <<"K", "Uuml">>, None,
    <<"K", "'", "S", "$">>, <<"X">>, <<"X">>,
    <<"K", "acute", "S", "$">>, <<"X">>, <<"X">>,
    <<"L", "A", "N", "G", "E", "S", "$">>, <<" ", "L", "A", "N", "G", "E", "S">>, <<" ", "L", "A", "N", "K", "E", "Z">>,
    <<"L", "A", "N", "G", "E", "$">>, <<" ", "L", "A", "N", "G", "E">>, <<" ", "L", "A", "N", "K", "E">>,
    <<"L", "A", "N", "G", "$">>, <<" ", "L", "A", "N", "K">>, <<" ", "L", "A", "N", "K">>,
    <<"L", "A", "R", "V", "E", "-">>, <<"L", "A", "R", "F">>, <<"L", "A", "R", "F">>,
    <<"L", "D", "(", "S", "szlig", "Z", ")", "$">>, <<"L", "S">>, <<"L", "Z">>,
    <<"L", "D", "'", "S", "$">>, <<"L", "S">>, <<"L", "Z">>,
    <<"L", "D", "acute", "S", "$">>, <<"L", "S">>, <<"L", "Z">>,
    <<"L", "E", "A", "N", "D", "-", "^">>, <<"L", "E", "A", "N">>, <<"L", "E", "A", "N">>,
    <<"L", "E", "E", "R", "S", "T", "E", "H", "E", "-", "-", "-", "-", "-", "^">>, <<"L", "E", "R", " ">>, <<"L", "E", "R", " ">>,
    <<"L", "E", "I", "C", "H", "B", "L", "E", "I", "B", "-", "-", "-", "-", "-">>, <<"L", "E", "I", "C", "H", " ">>, <<"L", "E", "I", "K", " ">>,
    <<"L", "E", "I", "C", "H", "L", "A", "U", "T", "E", "-", "-", "-", "-", "-">>, <<"L", "E", "I", "C", "H", " ">>, <<"L", "E", "I", "K", " ">>,
    <<"L", "E", "I", "D", "E", "R", "R", "E", "G", "E", "-", "-", "-", "-", "-", "-">>, <<"L", "E", "I", "T", " ">>, <<"L", "E", "I", "T", " ">>,
    <<"L", "E", "I", "D", "G", "E", "P", "R", "-", "-", "-", "-", "^">>, <<"L", "E", "I", "T", " ">>, <<"L", "E", "I", "T", " ">>,
    <<"L", "E", "I", "N", "S", "T", "E", "H", "E", "-", "-", "-", "-", "-">>, <<"L", "E", "I", "N", " ">>, <<"L", "E", "I", "N", " ">>,
    <<"L", "E", "L", "-">>, <<"L", "E">>, <<"L", "E">>,
    <<"L", "E", "(", "M", "N", "R", "S", "T", ")", "-", "3", "^">>, <<"L", "E">>, <<"L", "E">>,
    <<"L", "E", "T", "T", "E", "$">>, <<"L", "E", "T">>, <<"L", "E", "T">>,
    <<"L", "F", "G", "N", "A", "G", "-">>, <<"L", "F", "G", "A", "N">>, <<"L", "F", "K", "A", "N">>,
    <<"L", "I", "C", "H", "E", "R", "W", "E", "I", "S", "-", "-", "-", "-">>, <<"L", "I", "C", "H", "A", " ">>, <<"L", "I", "K", "A", " ">>,
    <<"L", "I", "C", "$">>, <<"L", "I", "Z">>, <<"L", "I", "Z">>,
    <<"L", "I", "V", "E", "^", "$">>, <<"L", "E", "I", "F">>, <<"L", "E", "I", "F">>,
    <<"L", "T", "(", "S", "szlig", "Z", ")", "$">>, <<"L", "S">>, <<"L", "Z">>,
    <<"L", "T", "'", "S", "$">>, <<"L", "S">>, <<"L", "Z">>,
    <<"L", "T", "acute", "S", "$">>, <<"L", "S">>, <<"L", "Z">>,
    <<"L", "U", "I", "(", "G", "S", ")", "-", "-">>, <<"L", "U">>, <<"L", "U">>,
    <<"L", "V", "(", "A", "I", "O", ")", "-">>, <<"L", "W">>, None,
    <<"L", "Y", "9", "^">>, <<"L", "Uuml">>, None,
    <<"L", "S", "T", "S", "$">>, <<"L", "S">>, <<"L", "Z">>,
    <<"L", "Z", "(", "B", "D", "F", "G", "K", "L", "M", "N", "P", "Q", "R", "S", "T", "V", "W", "X", ")", "-">>, <<"L", "S">>, None,
    <<"L", "(", "S", "szlig", "Z", ")", "$">>, <<"L", "S">>, None,
    <<"M", "A", "I", "R", "-", "<">>, <<"M", "E", "I">>, <<"N", "E", "I">>,
    <<"M", "A", "N", "A", "G", "-">>, <<"M", "E", "N", "E">>, <<"N", "E", "N", "E">>,
    <<"M", "A", "N", "U", "E", "L">>, <<"M", "A", "N", "U", "E", "L">>, None,
    <<"M", "A", "S", "S", "E", "U", "(", "R", "S", ")", "-">>, <<"M", "A", "S", "Ouml">>, <<"N", "A", "Z", "Ouml">>,
    <<"M", "A", "T", "C", "H">>, <<"M", "E", "S", "H">>, <<"N", "E", "Z">>,
    <<"M", "A", "U", "R", "I", "C", "E">>, <<"M", "O", "R", "I", "S">>, <<"N", "U", "R", "I", "Z">>,
    <<"M", "B", "H", "^", "$">>, <<"M", "B", "H">>, <<"M", "B", "H">>,
    <<"M", "B", "(", "szlig", "Z", ")", "$">>, <<"M", "S">>, None,
    <<"M", "B", "(", "S", "szlig", "T", "Z", ")", "-">>, <<"M">>, <<"N">>,
    <<"M", "C", "G", "9", "^">>, <<"M", "A", "K">>, <<"N", "A", "K">>,
    <<"M", "C", "9", "^">>, <<"M", "A", "K">>, <<"N", "A", "K">>,
    <<"M", "E", "M", "O", "I", "R", "-", "^">>, <<"M", "E", "M", "O", "A">>, <<"N", "E", "N", "U", "A">>,
    <<"M", "E", "R", "H", "A", "V", "E", "N", "$">>, <<"M", "A", "H", "A", "F", "N">>, None,
    <<"M", "E", "(", "L", "M", "N", "R", "S", "T", ")", "-", "3", "^">>, <<"M", "E">>, <<"N", "E">>,
    <<"M", "E", "N", "(", "S", "T", "Z", ")", "-", "-", "3">>, <<"M", "E">>, None,
    <<"M", "E", "N", "$">>, <<"M", "E", "N">>, None,
    <<"M", "I", "G", "U", "E", "L", "-">>, <<"M", "I", "G", "E">>, <<"N", "I", "K", "E">>,
    <<"M", "I", "K", "E", "^", "$">>, <<"M", "E", "I", "K">>, <<"N", "E", "I", "K">>,
    <<"M", "I", "T", "H", "I", "L", "F", "E", "-", "-", "-", "-", "^", "$">>, <<"M", "I", "T", " ", "H">>, <<"N", "I", "T", " ">>,
    <<"M", "N", "$">>, <<"M">>, None,
    <<"M", "N">>, <<"N">>, <<"N">>,
    <<"M", "P", "J", "U", "T", "E", "-">>, <<"M", "P", "U", "T">>, <<"N", "B", "U", "T">>,
    <<"M", "P", "(", "szlig", "Z", ")", "$">>, <<"M", "S">>, None,
    <<"M", "P", "(", "S", "szlig", "T", "Z", ")", "-">>, <<"M">>, <<"N">>,
    <<"M", "P", "(", "B", "D", "J", "L", "M", "N", "P", "Q", "V", "W", ")", "-">>, <<"M", "B">>, <<"N", "B">>,
    <<"M", "Y", "9", "^">>, <<"M", "Uuml">>, None,
    <<"M", "(", "szlig", "Z", ")", "$">>, <<"M", "S">>, None,
    <<"M", "acute", "G", "7", "^">>, <<"M", "A", "K">>, <<"N", "A", "K">>,
    <<"M", "'", "G", "7", "^">>, <<"M", "A", "K">>, <<"N", "A", "K">>,
    <<"M", "acute", "^">>, <<"M", "A", "K">>, <<"N", "A", "K">>,
    <<"M", "'", "^">>, <<"M", "A", "K">>, <<"N", "A", "K">>,
    <<"M">>, None, <<"N">>,
    <<"N", "A", "C", "H", "^", "^">>, <<"N", "A", "C", "H">>, <<"N", "A", "K">>,
    <<"N", "A", "D", "I", "N", "E">>, <<"N", "A", "D", "I", "N">>, <<"N", "A", "T", "I", "N">>,
    <<"N", "A", "I", "V", "-", "-">>, <<"N", "A">>, <<"N", "A">>,
    <<"N", "A", "I", "S", "E", "$">>, <<"N", "E", "S", "E">>, <<"N", "E", "Z", "E">>,
    <<"N", "A", "U", "G", "E", "N", "O", "M", "M", "-", "-", "-", "-", "-", "-">>, <<"N", "A", "U", " ">>, <<"N", "A", "U", " ">>,
    <<"N", "A", "U", "S", "O", "G", "U", "T", "$">>, <<"N", "A", "U", "S", "O", " ", "G", "U", "T">>, <<"N", "A", "U", "Z", "U", " ", "K", "U", "T">>,
    <<"N", "C", "H", "$">>, <<"N", "S", "H">>, <<"N", "Z">>,
    <<"N", "C", "O", "I", "S", "E", "$">>, <<"S", "O", "A">>, <<"Z", "U", "A">>,
    <<"N", "C", "O", "I", "S", "$">>, <<"S", "O", "A">>, <<"Z", "U", "A">>,
    <<"N", "D", "A", "R", "$">>, <<"N", "D", "A">>, <<"N", "T", "A">>,
    <<"N", "D", "E", "R", "I", "N", "G", "E", "N", "-", "-", "-", "-", "-", "-">>, <<"N", "D", "E", " ">>, <<"N", "T", "E", " ">>,
    <<"N", "D", "R", "O", "(", "C", "D", "K", "T", "Z", ")", "-">>, <<"N", "T", "R", "O">>, None,
    <<"N", "D", "(", "B", "F", "G", "J", "L", "M", "N", "P", "Q", "V", "W", ")", "-">>, <<"N", "T">>, None,
    <<"N", "D", "(", "S", "szlig", "Z", ")", "$">>, <<"N", "S">>, <<"N", "Z">>,
    <<"N", "D", "'", "S", "$">>, <<"N", "S">>, <<"N", "Z">>,
    <<"N", "D", "acute", "S", "$">>, <<"N", "S">>, <<"N", "Z">>,
    <<"N", "E", "B", "E", "N", "^", "^">>, <<"N", "E", "B", "N">>, <<"N", "E", "B", "N">>,
    <<"N", "E", "N", "G", "E", "L", "E", "R", "N", "-", "-", "-", "-", "-", "-">>, <<"N", "E", "N", " ">>, <<"N", "E", "N", " ">>,
    <<"N", "E", "N", "L", "E", "R", "N", "(", "E", "T", ")", "-", "-", "-">>, <<"N", "E", "N", " ", "L", "E">>, <<"N", "E", "N", " ", "L", "E">>,
    <<"N", "E", "N", "Z", "U", "L", "E", "R", "N", "E", "-", "-", "-">>, <<"N", "E", "N", " ", "Z", "U", " ", "L", "E">>, <<"N", "E", "N", " ", "Z", "U", " ", "L", "E">>,
    <<"N", "E", "(", "L", "M", "N", "R", "S", "T", ")", "-", "3", "^">>, <<"N", "E">>, <<"N", "E">>,
    <<"N", "E", "N", "-", "3">>, <<"N", "E">>, <<"N", "E">>,
    <<"N", "E", "T", "T", "E", "$">>, <<"N", "E", "T">>, <<"N", "E", "T">>,
    <<"N", "G", "U", "^", "^">>, <<"N", "U">>, <<"N", "U">>,
    <<"N", "G", "(", "B", "D", "F", "J", "L", "M", "N", "P", "Q", "R", "T", "V", "W", ")", "-">>, <<"N", "K">>, <<"N", "K">>,
    <<"N", "H", "(", "A", "U", "O", ")", "-", "$">>, <<"N", "I">>, <<"N", "I">>,
    <<"N", "I", "C", "H", "T", "S", "A", "H", "N", "E", "N", "-", "-", "-", "-", "-">>, <<"N", "I", "X", " ">>, <<"N", "I", "X", " ">>,
    <<"N", "I", "C", "H", "T", "S", "S", "A", "G", "E", "-", "-", "-", "-">>, <<"N", "I", "X", " ">>, <<"N", "I", "X", " ">>,
    <<"N", "I", "C", "H", "T", "S", "^", "^">>, <<"N", "I", "X">>, <<"N", "I", "X">>,
    <<"N", "I", "C", "H", "T", "^", "^">>, <<"N", "I", "C", "H", "T">>, <<"N", "I", "K", "T">>,
    <<"N", "I", "N", "E", "$">>, <<"N", "I", "N">>, <<"N", "I", "N">>,
    <<"N", "O", "N", "^", "^">>, <<"N", "O", "N">>, <<"N", "U", "N">>,
    <<"N", "O", "T", "L", "E", "I", "D", "E", "-", "-", "-", "-", "-", "^">>, <<"N", "O", "T", " ">>, <<"N", "U", "T", " ">>,
    <<"N", "O", "T", "^", "^">>, <<"N", "O", "T">>, <<"N", "U", "T">>,
    <<"N", "T", "I", "(", "A", "I", "O", "U", ")", "-", "3">>, <<"N", "Z", "I">>, <<"N", "Z", "I">>,
    <<"N", "T", "I", "E", "L", "-", "-", "3">>, <<"N", "Z", "I">>, <<"N", "Z", "I">>,
    <<"N", "T", "(", "S", "szlig", "Z", ")", "$">>, <<"N", "S">>, <<"N", "Z">>,
    <<"N", "T", "'", "S", "$">>, <<"N", "S">>, <<"N", "Z">>,
    <<"N", "T", "acute", "S", "$">>, <<"N", "S">>, <<"N", "Z">>,
    <<"N", "Y", "L", "O", "N">>, <<"N", "E", "I", "L", "O", "N">>, <<"N", "E", "I", "L", "U", "N">>,
    <<"N", "Y", "9", "^">>, <<"N", "Uuml">>, None,
    <<"N", "S", "T", "Z", "U", "N", "E", "H", "-", "-", "-">>, <<"N", "S", "T", " ", "Z", "U", " ">>, <<"N", "Z", "T", " ", "Z", "U", " ">>,
    <<"N", "S", "Z", "-">>, <<"N", "S">>, None,
    <<"N", "S", "T", "S", "$">>, <<"N", "S">>, <<"N", "Z">>,
    <<"N", "Z", "(", "B", "D", "F", "G", "K", "L", "M", "N", "P", "Q", "R", "S", "T", "V", "W", "X", ")", "-">>, <<"N", "S">>, None,
    <<"N", "(", "S", "szlig", "Z", ")", "$">>, <<"N", "S">>, None,
    <<"O", "B", "E", "R", "E", "-">>, <<"O", "B", "E", "R">>, None,
    <<"O", "B", "E", "R", "^", "^">>, <<"O", "B", "A">>, <<"U", "B", "A">>,
    <<"O", "E", "U", "2">>, <<"Ouml">>, <<"Ouml">>,
    <<"O", "E", "<", "2">>, <<"Ouml">>, <<"Ouml">>,
    <<"O", "G", "L", "-">>, <<"O", "K">>, None,
    <<"O", "G", "N", "I", "E", "-">>, <<"O", "N", "I">>, <<"U", "N", "I">>,
    <<"O", "G", "N", "(", "A", "E", "O", "U", ")", "-", "$">>, <<"O", "N", "I">>, <<"U", "N", "I">>,
    <<"O", "H", "(", "A", "I", "O", "Ouml", "U", "Uuml", "Y", ")", "-">>, <<"O", "H">>, None,
    <<"O", "I", "E", "$">>, <<"Ouml">>, <<"Ouml">>,
    <<"O", "I", "R", "E", "$">>, <<"O", "A">>, <<"U", "A">>,
    <<"O", "I", "R", "$">>, <<"O", "A">>, <<"U", "A">>,
    <<"O", "I", "X">>, <<"O", "A">>, <<"U", "A">>,
    <<"O", "I", "<", "3">>, <<"E", "U">>, <<"E", "U">>,
    <<"O", "K", "A", "Y", "^", "$">>, <<"O", "K", "E">>, <<"U", "K", "E">>,
    <<"O", "L", "Y", "N", "$">>, <<"O", "L", "I", "N">>, <<"U", "L", "I", "N">>,
    <<"O", "O", "(", "D", "L", "M", "Z", ")", "-">>, <<"U">>, None,
    <<"O", "O", "$">>, <<"U">>, None,
    <<"O", "O", "-">>, <<>>, <<>>,
    <<"O", "R", "G", "I", "N", "A", "L", "-", "-", "-", "-", "-">>, <<"O", "R", "I">>, <<"U", "R", "I">>,
    <<"O", "T", "I", "(", "A", "Auml", "O", "Ouml", "U", "Uuml", ")", "-">>, <<"O", "Z", "I">>, <<"U", "Z", "I">>,
    <<"O", "U", "I", "^">>, <<"W", "I">>, <<"F", "I">>,
    <<"O", "U", "I", "L", "L", "E", "$">>, <<"U", "L", "I", "E">>, <<"U", "L", "I", "E">>,
    <<"O", "U", "(", "D", "T", ")", "-", "^">>, <<"A", "U">>, <<"A", "U">>,
    <<"O", "U", "S", "E", "$">>, <<"A", "U", "S">>, <<"A", "U", "Z">>,
    <<"O", "U", "T", "-">>, <<"A", "U">>, <<"A", "U">>,
    <<"O", "U">>, <<"U">>, <<"U">>,
    <<"O", "(", "F", "V", ")", "$">>, <<"A", "U">>, <<"A", "U">>,
    <<"O", "V", "E", "R", "-", "-", "<">>, <<"O", "W">>, None,
    <<"O", "V", "(", "A", "O", "U", ")", "-">>, <<"O", "W">>, None,
    <<"O", "W", "$">>, <<"A", "U">>, <<"A", "U">>,
    <<"O", "W", "S", "$">>, <<"O", "S">>, <<"U", "Z">>,
    <<"O", "J", "(", "A", "Auml", "E", "I", "O", "Ouml", "U", "Uuml", ")", "-", "-">>, <<"O">>, <<"U">>,
    <<"O", "Y", "E", "R">>, <<"O", "I", "A">>, None,
    <<"O", "Y", "(", "A", "Auml", "E", "I", "O", "Ouml", "U", "Uuml", ")", "-", "-">>, <<"O">>, <<"U">>,
    <<"O", "(", "J", "Y", ")", "<">>, <<"E", "U">>, <<"E", "U">>,
    <<"O", "Z", "$">>, <<"O", "S">>, None,
    <<"O", "acute", "^">>, <<"O">>, <<"U">>,
    <<"O", "'", "^">>, <<"O">>, <<"U">>,
    <<"O">>, None, <<"U">>,
    <<"P", "A", "T", "I", "E", "N", "-", "-", "^">>, <<"P", "A", "Z", "I">>, <<"P", "A", "Z", "I">>,
    <<"P", "E", "N", "S", "I", "O", "-", "^">>, <<"P", "A", "N", "S", "I">>, <<"P", "A", "N", "Z", "I">>,
    <<"P", "E", "(", "L", "M", "N", "R", "S", "T", ")", "-", "3", "^">>, <<"P", "E">>, <<"P", "E">>,
    <<"P", "F", "E", "R", "-", "^">>, <<"F", "E">>, <<"F", "E">>,
    <<"P", "(", "F", "H", ")", "<">>, <<"F">>, <<"F">>,
    <<"P", "I", "C", "^", "$">>, <<"P", "I", "K">>, <<"P", "I", "K">>,
    <<"P", "I", "C", "$">>, <<"P", "I", "Z">>, <<"P", "I", "Z">>,
    <<"P", "I", "P", "E", "L", "I", "N", "E">>, <<"P", "E", "I", "B", "L", "E", "I", "N">>, <<"P", "E", "I", "B", "L", "E", "I", "N">>,
    <<"P", "O", "L", "Y", "P", "-">>, <<"P", "O", "L", "Uuml">>, None,
    <<"P", "O", "L", "Y", "^", "^">>, <<"P", "O", "L", "I">>, <<"P", "U", "L", "I">>,
    <<"P", "O", "R", "T", "R", "A", "I", "T", "7">>, <<"P", "O", "R", "T", "R", "E">>, <<"P", "U", "R", "T", "R", "E">>,
    <<"P", "O", "W", "E", "R", "7">>, <<"P", "A", "U", "A">>, <<"P", "A", "U", "A">>,
    <<"P", "P", "(", "F", "H", ")", "-", "-", "<">>, <<"B">>, <<"B">>,
    <<"P", "P", "-">>, <<>>, <<>>,
    <<"P", "R", "O", "D", "U", "Z", "-", "^">>, <<"P", "R", "O", "D", "U">>, <<"B", "R", "U", "T", "U">>,
    <<"P", "R", "O", "D", "U", "Z", "I", "-", "-">>, <<" ", "P", "R", "O", "D", "U">>, <<" ", "B", "R", "U", "T", "U">>,
    <<"P", "R", "I", "X", "^", "$">>, <<"P", "R", "I">>, <<"P", "R", "I">>,
    <<"P", "S", "-", "^", "^">>, <<"P">>, None,
    <<"P", "(", "S", "szlig", "Z", ")", "^">>, None, <<"Z">>,
    <<"P", "(", "S", "szlig", "Z", ")", "$">>, <<"B", "S">>, None,
    <<"P", "T", "-", "^">>, <<>>, <<>>,
    <<"P", "T", "I", "(", "A", "Auml", "O", "Ouml", "U", "Uuml", ")", "-", "3">>, <<"B", "Z", "I">>, <<"B", "Z", "I">>,
    <<"P", "Y", "9", "^">>, <<"P", "Uuml">>, None,
    <<"P", "(", "A", "Auml", "E", "I", "O", "Ouml", "R", "U", "Uuml", "Y", ")", "-">>, <<"P">>, <<"P">>,
    <<"P", "(", "Agrave", "Aacute", "Acirc", "Atilde", "Aring", "Egrave", "Eacute", "Ecirc", "Igrave", "Iacute", "Icirc", "Ugrave", "Uacute", "Ucirc", ")", "-">>, <<"P">>, None,
    <<"P", ".", "^">>, None, <<"P", ".">>,
    <<"P", "^">>, <<"P">>, None,
    <<"P">>, <<"B">>, <<"B">>,
    <<"Q", "I", "-">>, <<"Z">>, <<"Z">>,
    <<"Q", "U", "A", "R", "A", "N", "T", "-", "-">>, <<"K", "A", "R", "A">>, <<"K", "A", "R", "A">>,
    <<"Q", "U", "E", "(", "L", "M", "N", "R", "S", "T", ")", "-", "3">>, <<"K", "W", "E">>, <<"K", "F", "E">>,
    <<"Q", "U", "E", "$">>, <<"K">>, <<"K">>,
    <<"Q", "U", "I", "(", "N", "S", ")", "$">>, <<"K", "I">>, <<"K", "I">>,
    <<"Q", "U", "I", "Z", "7">>, <<"K", "W", "I", "S">>, None,
    <<"Q", "(", "U", "V", ")", "7">>, <<"K", "W">>, <<"K", "F">>,
    <<"Q", "<">>, <<"K">>, <<"K">>,
    <<"R", "A", "D", "F", "A", "H", "R", "-", "-", "-", "-">>, <<"R", "A", "T", " ">>, <<"R", "A", "T", " ">>,
    <<"R", "A", "E", "F", "T", "E", "Z", "E", "H", "R", "E", "-", "-", "-", "-", "-">>, <<"R", "E", "F", "T", "E", " ">>, <<"R", "E", "F", "T", "E", " ">>,
    <<"R", "C", "H">>, <<"R", "C", "H">>, <<"R", "K">>,
    <<"R", "E", "A", "(", "D", "U", ")", "-", "-", "-", "3", "^">>, <<"R">>, None,
    <<"R", "E", "B", "S", "E", "R", "Z", "E", "U", "G", "-", "-", "-", "-", "-", "-">>, <<"R", "E", "B", "S", " ">>, <<"R", "E", "B", "Z", " ">>,
    <<"R", "E", "C", "H", "E", "R", "C", "H", "^">>, <<"R", "E", "S", "H", "A", "S", "H">>, <<"R", "E", "Z", "A", "Z">>,
    <<"R", "E", "C", "Y", "C", "L", "-", "-">>, <<"R", "I", "Z", "E", "I">>, <<"R", "I", "Z", "E", "I">>,
    <<"R", "E", "(", "A", "L", "S", "T", ")", "-", "3", "^">>, <<"R", "E">>, None,
    <<"R", "E", "E", "$">>, <<"R", "I">>, <<"R", "I">>,
    <<"R", "E", "R", "$">>, <<"R", "A">>, <<"R", "A">>,
    <<"R", "E", "(", "M", "N", "R", ")", "-", "4">>, <<"R", "E">>, <<"R", "E">>,
    <<"R", "E", "T", "T", "E", "$">>, <<"R", "E", "T">>, <<"R", "E", "T">>,
    <<"R", "E", "U", "Z", "$">>, <<"R", "E", "U", "Z">>, None,
    <<"R", "E", "W", "$">>, <<"R", "U">>, <<"R", "U">>,
    <<"R", "H", "<", "^">>, <<"R">>, <<"R">>,
    <<"R", "J", "A", "(", "M", "N", ")", "-", "-">>, <<"R", "I">>, <<"R", "I">>,
    <<"R", "O", "W", "D", "-", "^">>, <<"R", "A", "U">>, <<"R", "A", "U">>,
    <<"R", "T", "E", "M", "O", "N", "N", "A", "I", "E", "-">>, <<"R", "T", "M", "O", "N">>, <<"R", "T", "N", "U", "N">>,
    <<"R", "T", "I", "(", "A", "Auml", "O", "Ouml", "U", "Uuml", ")", "-", "3">>, <<"R", "Z", "I">>, <<"R", "Z", "I">>,
    <<"R", "T", "I", "E", "L", "-", "-", "3">>, <<"R", "Z", "I">>, <<"R", "Z", "I">>,
    <<"R", "V", "(", "A", "E", "O", "U", ")", "-", "3">>, <<"R", "W">>, None,
    <<"R", "Y", "(", "K", "N", ")", "-", "$">>, <<"R", "I">>, <<"R", "I">>,
    <<"R", "Y", "9", "^">>, <<"R", "Uuml">>, None,
    <<"R", "Auml", "F", "T", "E", "Z", "E", "H", "R", "E", "-", "-", "-", "-", "-">>, <<"R", "E", "F", "T", "E", " ">>, <<"R", "E", "F", "T", "E", " ">>,
    <<"S", "A", "I", "S", "O", "-", "^">>, <<"S", "E", "S">>, <<"Z", "E", "Z">>,
    <<"S", "A", "F", "E", "^", "$">>, <<"S", "E", "I", "F">>, <<"Z", "E", "I", "F">>,
    <<"S", "A", "U", "C", "E", "-", "^">>, <<"S", "O", "S">>, <<"Z", "U", "Z">>,
    <<"S", "C", "H", "L", "A", "G", "G", "E", "B", "E", "N", "-", "-", "-", "-", "-", "<">>, <<"S", "H", "L", "A", "K", " ">>, <<"Z", "L", "A", "K", " ">>,
    <<"S", "C", "H", "S", "C", "H", "-", "-", "-", "7">>, <<>>, <<>>,
    <<"S", "C", "H", "T", "S", "C", "H">>, <<"S", "H">>, <<"Z">>,
    <<"S", "C", "(", "H", "Z", ")", "<">>, <<"S", "H">>, <<"Z">>,
    <<"S", "C">>, <<"S", "K">>, <<"Z", "K">>,
    <<"S", "E", "L", "B", "S", "T", "S", "T", "-", "-", "7", "^", "^">>, <<"S", "E", "L", "B">>, <<"Z", "E", "L", "B">>,
    <<"S", "E", "L", "B", "S", "T", "7", "^", "^">>, <<"S", "E", "L", "B", "S", "T">>, <<"Z", "E", "L", "B", "Z", "T">>,
    <<"S", "E", "R", "V", "I", "C", "E", "7", "^">>, <<"S", "Ouml", "R", "W", "I", "S">>, <<"Z", "Ouml", "R", "F", "I", "Z">>,
    <<"S", "E", "R", "V", "I", "-", "^">>, <<"S", "E", "R", "W">>, None,
    <<"S", "E", "(", "L", "M", "N", "R", "S", "T", ")", "-", "3", "^">>, <<"S", "E">>, <<"Z", "E">>,
    <<"S", "E", "T", "T", "E", "$">>, <<"S", "E", "T">>, <<"Z", "E", "T">>,
    <<"S", "H", "P", "-", "^">>, <<"S">>, <<"Z">>,
    <<"S", "H", "S", "T">>, <<"S", "H", "T">>, <<"Z", "T">>,
    <<"S", "H", "T", "S", "H">>, <<"S", "H">>, <<"Z">>,
    <<"S", "H", "T">>, <<"S", "T">>, <<"Z">>,
    <<"S", "H", "Y", "9", "^">>, <<"S", "H", "Uuml">>, None,
    <<"S", "H", "^", "^">>, <<"S", "H">>, None,
    <<"S", "H", "3">>, <<"S", "H">>, <<"Z">>,
    <<"S", "I", "C", "H", "E", "R", "G", "E", "G", "A", "N", "-", "-", "-", "-", "-", "^">>, <<"S", "I", "C", "H", "A", " ">>, <<"Z", "I", "K", "A", " ">>,
    <<"S", "I", "C", "H", "E", "R", "G", "E", "H", "E", "-", "-", "-", "-", "^">>, <<"S", "I", "C", "H", "A", " ">>, <<"Z", "I", "K", "A", " ">>,
    <<"S", "I", "C", "H", "E", "R", "G", "E", "S", "T", "E", "L", "-", "-", "-", "-", "-", "-", "^">>, <<"S", "I", "C", "H", "A", " ">>, <<"Z", "I", "K", "A", " ">>,
    <<"S", "I", "C", "H", "E", "R", "S", "T", "E", "L", "L", "-", "-", "-", "-", "-", "^">>, <<"S", "I", "C", "H", "A", " ">>, <<"Z", "I", "K", "A", " ">>,
    <<"S", "I", "C", "H", "E", "R", "Z", "U", "(", "G", "S", ")", "-", "-", "^">>, <<"S", "I", "C", "H", "A", " ", "Z", "U", " ">>, <<"Z", "I", "K", "A", " ", "Z", "U", " ">>,
    <<"S", "I", "E", "G", "L", "I", "-", "^">>, <<"S", "I", "K", "L">>, <<"Z", "I", "K", "L">>,
    <<"S", "I", "G", "L", "I", "-", "^">>, <<"S", "I", "K", "L">>, <<"Z", "I", "K", "L">>,
    <<"S", "I", "G", "H", "T">>, <<"S", "E", "I", "T">>, <<"Z", "E", "I", "T">>,
    <<"S", "I", "G", "N">>, <<"S", "E", "I", "N">>, <<"Z", "E", "I", "N">>,
    <<"S", "K", "I", "(", "N", "P", "Z", ")", "-">>, <<"S", "K", "I">>, <<"Z", "K", "I">>,
    <<"S", "K", "I", "<", "^">>, <<"S", "H", "I">>, <<"Z", "I">>,
    <<"S", "O", "D", "A", "S", "S", "^", "$">>, <<"S", "O", " ", "D", "A", "S">>, <<"Z", "U", " ", "T", "A", "Z">>,
    <<"S", "O", "D", "A", "szlig", "^", "$">>, <<"S", "O", " ", "D", "A", "S">>, <<"Z", "U", " ", "T", "A", "Z">>,
    <<"S", "O", "G", "E", "N", "A", "N", "-", "-", "^">>, <<"S", "O", " ", "G", "E", "N">>, <<"Z", "U", " ", "K", "E", "N">>,
    <<"S", "O", "U", "N", "D", "-">>, <<"S", "A", "U", "N">>, <<"Z", "A", "U", "N">>,
    <<"S", "T", "A", "A", "T", "S", "^", "^">>, <<"S", "T", "A", "Z">>, <<"Z", "T", "A", "Z">>,
    <<"S", "T", "A", "D", "T", "^", "^">>, <<"S", "T", "A", "T">>, <<"Z", "T", "A", "T">>,
    <<"S", "T", "A", "N", "D", "E", "$">>, <<" ", "S", "T", "A", "N", "D", "E">>, <<" ", "Z", "T", "A", "N", "T", "E">>,
    <<"S", "T", "A", "R", "T", "^", "^">>, <<"S", "T", "A", "R", "T">>, <<"Z", "T", "A", "R", "T">>,
    <<"S", "T", "A", "U", "R", "A", "N", "T", "7">>, <<"S", "T", "O", "R", "A", "N">>, <<"Z", "T", "U", "R", "A", "N">>,
    <<"S", "T", "E", "A", "K", "-">>, <<"S", "T", "E">>, <<"Z", "T", "E">>,
    <<"S", "T", "E", "P", "H", "E", "N", "-", "^", "$">>, <<"S", "T", "E", "W">>, None,
    <<"S", "T", "E", "R", "N">>, <<"S", "T", "E", "R", "N">>, None,
    <<"S", "T", "R", "A", "F", "^", "^">>, <<"S", "T", "R", "A", "F">>, <<"Z", "T", "R", "A", "F">>,
    <<"S", "T", "'", "S", "$">>, <<"Z">>, <<"Z">>,
    <<"S", "T", "acute", "S", "$">>, <<"Z">>, <<"Z">>,
    <<"S", "T", "S", "T", "-", "-">>, <<>>, <<>>,
    <<"S", "T", "S", "(", "A", "C", "E", "Egrave", "Eacute", "Ecirc", "H", "I", "Igrave", "Iacute", "Icirc", "O", "U", "Auml", "Uuml", "Ouml", ")", "-", "-">>, <<"S", "T">>, <<"Z", "T">>,
    <<"S", "T", "(", "S", "Z", ")">>, <<"Z">>, <<"Z">>,
    <<"S", "P", "A", "R", "E", "N", "-", "-", "-", "^">>, <<"S", "P", "A">>, <<"Z", "P", "A">>,
    <<"S", "P", "A", "R", "E", "N", "D", "-", "-", "-", "-">>, <<" ", "S", "P", "A">>, <<" ", "Z", "P", "A">>,
    <<"S", "(", "P", "T", "W", ")", "-", "^", "^">>, <<"S">>, None,
    <<"S", "P">>, <<"S", "P">>, None,
    <<"S", "T", "Y", "N", "(", "A", "E", ")", "-", "$">>, <<"S", "T", "I", "N">>, <<"Z", "T", "I", "N">>,
    <<"S", "T">>, <<"S", "T">>, <<"Z", "T">>,
    <<"S", "U", "I", "T", "E", "<">>, <<"S", "I", "U", "T">>, <<"Z", "I", "U", "T">>,
    <<"S", "U", "K", "E", "-", "-", "$">>, <<"S">>, <<"Z">>,
    <<"S", "U", "R", "F", "(", "E", "I", ")", "-">>, <<"S", "Ouml", "R", "F">>, <<"Z", "Ouml", "R", "F">>,
    <<"S", "V", "(", "A", "E", "Egrave", "Eacute", "Ecirc", "I", "Igrave", "Iacute", "Icirc", "O", "U", ")", "-", "<", "^">>, <<"S", "W">>, None,
    <<"S", "Y", "B", "(", "I", "Y", ")", "-", "-", "^">>, <<"S", "I", "B">>, None,
    <<"S", "Y", "L", "(", "K", "V", "W", ")", "-", "-", "^">>, <<"S", "I">>, None,
    <<"S", "Y", "9", "^">>, <<"S", "Uuml">>, None,
    <<"S", "Z", "E", "(", "N", "P", "T", ")", "-", "^">>, <<"Z", "E">>, <<"Z", "E">>,
    <<"S", "Z", "I", "(", "E", "L", "N", ")", "-", "^">>, <<"Z", "I">>, <<"Z", "I">>,
    <<"S", "Z", "C", "Z", "<">>, <<"S", "H">>, <<"Z">>,
    <<"S", "Z", "T", "<">>, <<"S", "T">>, <<"Z", "T">>,
    <<"S", "Z", "<", "3">>, <<"S", "H">>, <<"Z">>,
    <<"S", "Uuml", "L", "(", "K", "V", "W", ")", "-", "-", "^">>, <<"S", "I">>, None,
    <<"S">>, None, <<"Z">>,
    <<"T", "C", "H">>, <<"S", "H">>, <<"Z">>,
    <<"T", "D", "(", "A", "Auml", "E", "I", "O", "Ouml", "R", "U", "Uuml", "Y", ")", "-">>, <<"T">>, None,
    <<"T", "D", "(", "Agrave", "Aacute", "Acirc", "Atilde", "Aring", "Egrave", "Eacute", "Ecirc", "Euml", "Igrave", "Iacute", "Icirc", "Iuml", "Ograve", "Oacute", "Ocirc", "Otilde", "Oslash", "Ugrave", "Uacute", "Ucirc", "Yacute", "Yuml", ")", "-">>, <<"T">>, None,
    <<"T", "E", "A", "T", "-", "^">>, <<"T", "E", "A">>, <<"T", "E", "A">>,
    <<"T", "E", "R", "R", "A", "I", "7", "^">>, <<"T", "E", "R", "A">>, <<"T", "E", "R", "A">>,
    <<"T", "E", "(", "L", "M", "N", "R", "S", "T", ")", "-", "3", "^">>, <<"T", "E">>, <<"T", "E">>,
    <<"T", "H", "<">>, <<"T">>, <<"T">>,
    <<"T", "I", "C", "H", "T", "-">>, <<"T", "I", "K">>, <<"T", "I", "K">>,
    <<"T", "I", "C", "H", "$">>, <<"T", "I", "K">>, <<"T", "I", "K">>,
    <<"T", "I", "C", "$">>, <<"T", "I", "Z">>, <<"T", "I", "Z">>,
    <<"T", "I", "G", "G", "E", "S", "T", "E", "L", "L", "-", "-", "-", "-", "-", "-", "-">>, <<"T", "I", "K", " ">>, <<"T", "I", "K", " ">>,
    <<"T", "I", "G", "S", "T", "E", "L", "L", "-", "-", "-", "-", "-">>, <<"T", "I", "K", " ">>, <<"T", "I", "K", " ">>,
    <<"T", "O", "A", "S", "-", "^">>, <<"T", "O">>, <<"T", "U">>,
    <<"T", "O", "I", "L", "E", "T", "-">>, <<"T", "O", "L", "E">>, <<"T", "U", "L", "E">>,
    <<"T", "O", "I", "N", "-">>, <<"T", "O", "A">>, <<"T", "U", "A">>,
    <<"T", "R", "A", "E", "C", "H", "T", "I", "-", "^">>, <<"T", "R", "E", "C", "H", "T">>, <<"T", "R", "E", "K", "T">>,
    <<"T", "R", "A", "E", "C", "H", "T", "I", "G", "-", "-">>, <<" ", "T", "R", "E", "C", "H", "T">>, <<" ", "T", "R", "E", "K", "T">>,
    <<"T", "R", "A", "I", "N", "I", "-">>, <<"T", "R", "E", "N">>, <<"T", "R", "E", "N">>,
    <<"T", "R", "Auml", "C", "H", "T", "I", "-", "^">>, <<"T", "R", "E", "C", "H", "T">>, <<"T", "R", "E", "K", "T">>,
    <<"T", "R", "Auml", "C", "H", "T", "I", "G", "-", "-">>, <<" ", "T", "R", "E", "C", "H", "T">>, <<" ", "T", "R", "E", "K", "T">>,
    <<"T", "S", "C", "H">>, <<"S", "H">>, <<"Z">>,
    <<"T", "S", "H">>, <<"S", "H">>, <<"Z">>,
    <<"T", "S", "T">>, <<"Z", "T">>, <<"Z", "T">>,
    <<"T", "(", "S", "szlig", ")">>, <<"Z">>, <<"Z">>,
    <<"T", "T", "(", "S", "Z", ")", "-", "-", "<">>, <<>>, <<>>,
    <<"T", "T", "9">>, <<"T">>, <<"T">>,
    <<"T", "V", "^", "$">>, <<"T", "V">>, <<"T", "V">>,
    <<"T", "X", "(", "A", "E", "I", "O", "U", ")", "-", "3">>, <<"S", "H">>, <<"Z">>,
    <<"T", "Y", "9", "^">>, <<"T", "Uuml">>, None,
    <<"T", "Z", "-">>, <<>>, <<>>,
    <<"T", "'", "S", "3", "$">>, <<"Z">>, <<"Z">>,
    <<"T", "acute", "S", "3", "$">>, <<"Z">>, <<"Z">>,
    <<"U", "E", "B", "E", "L", "(", "G", "N", "R", "W", ")", "-", "^", "^">>, <<"Uuml", "B", "L", " ">>, <<"I", "B", "L", " ">>,
    <<"U", "E", "B", "E", "R", "^", "^">>, <<"Uuml", "B", "A">>, <<"I", "B", "A">>,
    <<"U", "E", "2">>, <<"Uuml">>, <<"I">>,
    <<"U", "G", "L", "-">>, <<"U", "K">>, None,
    <<"U", "H", "(", "A", "O", "Ouml", "U", "Uuml", "Y", ")", "-">>, <<"U", "H">>, None,
    <<"U", "I", "E", "$">>, <<"Uuml">>, <<"I">>,
    <<"U", "M", "^", "^">>, <<"U", "M">>, <<"U", "N">>,
    <<"U", "N", "T", "E", "R", "E", "-", "-", "3">>, <<"U", "N", "T", "E">>, <<"U", "N", "T", "E">>,
    <<"U", "N", "T", "E", "R", "^", "^">>, <<"U", "N", "T", "A">>, <<"U", "N", "T", "A">>,
    <<"U", "N", "V", "E", "R", "^", "^">>, <<"U", "N", "F", "A">>, <<"U", "N", "F", "A">>,
    <<"U", "N", "^", "^">>, <<"U", "N">>, <<"U", "N">>,
    <<"U", "T", "I", "(", "A", "Auml", "O", "Ouml", "U", "Uuml", ")", "-">>, <<"U", "Z", "I">>, <<"U", "Z", "I">>,
    <<"U", "V", "E", "-", "4">>, <<"U", "W">>, None,
    <<"U", "Y", "2">>, <<"U", "I">>, None,
    <<"U", "Z", "Z">>, <<"A", "S">>, <<"A", "Z">>,
    <<"V", "A", "C", "L", "-", "^">>, <<"W", "A", "Z">>, <<"F", "A", "Z">>,
    <<"V", "A", "C", "$">>, <<"W", "A", "Z">>, <<"F", "A", "Z">>,
    <<"V", "A", "N", " ", "D", "E", "N", " ", "^">>, <<"F", "A", "N", "D", "N">>, <<"F", "A", "N", "T", "N">>,
    <<"V", "A", "N", "E", "S", "-", "^">>, <<"W", "A", "N", "E">>, None,
    <<"V", "A", "T", "R", "O", "-">>, <<"W", "A", "T", "R">>, None,
    <<"V", "A", "(", "D", "H", "J", "N", "T", ")", "-", "-", "^">>, <<"F">>, None,
    <<"V", "E", "D", "D", "-", "^">>, <<"F", "E">>, <<"F", "E">>,
    <<"V", "E", "(", "B", "E", "H", "I", "U", ")", "-", "-", "^">>, <<"F">>, None,
    <<"V", "E", "L", "(", "B", "D", "L", "M", "N", "T", ")", "-", "^">>, <<"F", "E", "L">>, None,
    <<"V", "E", "N", "T", "Z", "-", "^">>, <<"F", "E", "N">>, None,
    <<"V", "E", "N", "(", "N", "R", "S", "Z", ")", "-", "^">>, <<"F", "E", "N">>, None,
    <<"V", "E", "R", "(", "A", "B", ")", "-", "^", "$">>, <<"W", "E", "R">>, None,
    <<"V", "E", "R", "B", "A", "L", "^", "$">>, <<"W", "E", "R", "B", "A", "L">>, None,
    <<"V", "E", "R", "B", "A", "L", "(", "E", "I", "N", "S", ")", "-", "^">>, <<"W", "E", "R", "B", "A", "L">>, None,
    <<"V", "E", "R", "T", "E", "B", "R", "-", "-">>, <<"W", "E", "R", "T", "E">>, None,
    <<"V", "E", "R", "E", "I", "N", "-", "-", "-", "-", "-">>, <<"F">>, None,
    <<"V", "E", "R", "E", "N", "(", "A", "E", "I", "O", "U", ")", "-", "^">>, <<"W", "E", "R", "E", "N">>, None,
    <<"V", "E", "R", "I", "F", "I">>, <<"W", "E", "R", "I", "F", "I">>, None,
    <<"V", "E", "R", "O", "N", "(", "A", "E", "I", "O", "U", ")", "-", "^">>, <<"W", "E", "R", "O", "N">>, None,
    <<"V", "E", "R", "S", "E", "N", "^">>, <<"F", "E", "R", "S", "N">>, <<"F", "A", "Z", "N">>,
    <<"V", "E", "R", "S", "I", "E", "R", "T", "-", "-", "^">>, <<"W", "E", "R", "S", "I">>, None,
    <<"V", "E", "R", "S", "I", "O", "-", "-", "^">>, <<"W", "E", "R", "S">>, None,
    <<"V", "E", "R", "S", "U", "S">>, <<"W", "E", "R", "S", "U", "S">>, None,
    <<"V", "E", "R", "T", "I", "(", "G", "K", ")", "-">>, <<"W", "E", "R", "T", "I">>, None,
    <<"V", "E", "R", "^", "^">>, <<"F", "E", "R">>, <<"F", "A">>,
    <<"V", "E", "R", "S", "P", "R", "E", "C", "H", "E", "-", "-", "-", "-", "-", "-", "-">>, <<" ", "F", "E", "R">>, <<" ", "F", "A">>,
    <<"V", "E", "R", "$">>, <<"W", "A">>, None,
    <<"V", "E", "R">>, <<"F", "A">>, <<"F", "A">>,
    <<"V", "E", "T", "(", "H", "T", ")", "-", "^">>, <<"F", "E", "T">>, <<"F", "E", "T">>,
    <<"V", "E", "T", "T", "E", "$">>, <<"W", "E", "T">>, <<"F", "E", "T">>,
    <<"V", "E", "^">>, <<"W", "E">>, None,
    <<"V", "I", "C", "$">>, <<"W", "I", "Z">>, <<"F", "I", "Z">>,
    <<"V", "I", "E", "L", "S", "A", "G", "E", "-", "-", "-", "-">>, <<"F", "I", "L", " ">>, <<"F", "I", "L", " ">>,
    <<"V", "I", "E", "L">>, <<"F", "I", "L">>, <<"F", "I", "L">>,
    <<"V", "I", "E", "W">>, <<"W", "I", "U">>, <<"F", "I", "U">>,
    <<"V", "I", "L", "L", "(", "A", "E", ")", "-">>, <<"W", "I", "L">>, None,
    <<"V", "I", "S", "(", "A", "C", "E", "I", "K", "U", "V", "W", "Z", ")", "-", "<", "^">>, <<"W", "I", "S">>, None,
    <<"V", "I", "(", "E", "L", "S", ")", "-", "-", "^">>, <<"F">>, None,
    <<"V", "I", "L", "L", "O", "N", "-", "-">>, <<"W", "I", "L", "I">>, <<"F", "I", "L", "I">>,
    <<"V", "I", "Z", "E", "^", "^">>, <<"F", "I", "Z", "E">>, <<"F", "I", "Z", "E">>,
    <<"V", "L", "I", "E", "-", "-", "^">>, <<"F", "L">>, None,
    <<"V", "L", "(", "A", "E", "I", "O", "U", ")", "-", "-">>, <<"W">>, None,
    <<"V", "O", "K", "A", "-", "^">>, <<"W", "O", "K">>, None,
    <<"V", "O", "L", "(", "A", "T", "U", "V", "W", ")", "-", "-", "^">>, <<"W", "O">>, None,
    <<"V", "O", "R", "^", "^">>, <<"F", "O", "R">>, <<"F", "U", "R">>,
    <<"V", "R", "(", "A", "E", "I", "O", "U", ")", "-", "-">>, <<"W">>, None,
    <<"V", "V", "9">>, <<"W">>, None,
    <<"V", "Y", "9", "^">>, <<"W", "Uuml">>, <<"F", "I">>,
    <<"V", "(", "Uuml", "Y", ")", "-">>, <<"W">>, None,
    <<"V", "(", "Agrave", "Aacute", "Acirc", "Atilde", "Aring", "Egrave", "Eacute", "Ecirc", "Igrave", "Iacute", "Icirc", "Ugrave", "Uacute", "Ucirc", ")", "-">>, <<"W">>, None,
    <<"V", "(", "A", "E", "I", "J", "L", "R", "U", ")", "-", "<">>, <<"W">>, None,
    <<"V", ".", "^">>, <<"V", ".">>, None,
    <<"V", "<">>, <<"F">>, <<"F">>,
    <<"W", "E", "I", "T", "E", "R", "E", "N", "T", "W", "I", "-", "-", "-", "-", "-", "^">>, <<"W", "E", "I", "T", "A", " ">>, <<"F", "E", "I", "T", "A", " ">>,
    <<"W", "E", "I", "T", "R", "E", "I", "C", "H", "-", "-", "-", "-", "-", "^">>, <<"W", "E", "I", "T", " ">>, <<"F", "E", "I", "T", " ">>,
    <<"W", "E", "I", "T", "V", "E", "R", "^">>, <<"W", "E", "I", "T", " ", "F", "E", "R">>, <<"F", "E", "I", "T", " ", "F", "A">>,
    <<"W", "E", "(", "L", "M", "N", "R", "S", "T", ")", "-", "3", "^">>, <<"W", "E">>, <<"F", "E">>,
    <<"W", "E", "R", "(", "D", "S", "T", ")", "-">>, <<"W", "E", "R">>, None,
    <<"W", "I", "C", "$">>, <<"W", "I", "Z">>, <<"F", "I", "Z">>,
    <<"W", "I", "E", "D", "E", "R", "U", "-", "-">>, <<"W", "I", "D", "E">>, <<"F", "I", "T", "E">>,
    <<"W", "I", "E", "D", "E", "R", "^", "$">>, <<"W", "I", "D", "A">>, <<"F", "I", "T", "A">>,
    <<"W", "I", "E", "D", "E", "R", "^", "^">>, <<"W", "I", "D", "A", " ">>, <<"F", "I", "T", "A", " ">>,
    <<"W", "I", "E", "V", "I", "E", "L">>, <<"W", "I", " ", "F", "I", "L">>, <<"F", "I", " ", "F", "I", "L">>,
    <<"W", "I", "S", "U", "E", "L">>, <<"W", "I", "S", "U", "E", "L">>, None,
    <<"W", "R", "-", "^">>, <<"W">>, None,
    <<"W", "Y", "9", "^">>, <<"W", "Uuml">>, <<"F", "I">>,
    <<"W", "(", "B", "D", "F", "G", "J", "K", "L", "M", "N", "P", "Q", "R", "S", "T", "Z", ")", "-">>, <<"F">>, None,
    <<"W", "$">>, <<"F">>, None,
    <<"W">>, None, <<"F">>,
    <<"X", "<", "^">>, <<"Z">>, <<"Z">>,
    <<"X", "H", "A", "V", "E", "N", "$">>, <<"X", "A", "F", "N">>, None,
    <<"X", "(", "C", "S", "Z", ")">>, <<"X">>, <<"X">>,
    <<"X", "T", "S", "(", "C", "H", ")", "-", "-">>, <<"X", "T">>, <<"X", "T">>,
    <<"X", "T", "(", "S", "Z", ")">>, <<"Z">>, <<"Z">>,
    <<"Y", "E", "(", "L", "M", "N", "R", "S", "T", ")", "-", "3", "^">>, <<"I", "E">>, <<"I", "E">>,
    <<"Y", "E", "-", "3">>, <<"I">>, <<"I">>,
    <<"Y", "O", "R", "(", "G", "K", ")", "^", "$">>, <<"I", "Ouml", "R", "K">>, <<"I", "Ouml", "R", "K">>,
    <<"Y", "(", "A", "O", "U", ")", "-", "<", "7">>, <<"I">>, <<"I">>,
    <<"Y", "(", "B", "K", "L", "M", "N", "P", "R", "S", "T", "X", ")", "-", "1">>, <<"Uuml">>, None,
    <<"Y", "V", "E", "S", "^", "$">>, <<"I", "F">>, <<"I", "F">>,
    <<"Y", "V", "O", "N", "N", "E", "^", "$">>, <<"I", "W", "O", "N">>, <<"I", "F", "U", "N">>,
    <<"Y", ".", "^">>, <<"Y", ".">>, None,
    <<"Y">>, <<"I">>, <<"I">>,
    <<"Z", "C", "(", "A", "O", "U", ")", "-">>, <<"S", "K">>, <<"Z", "K">>,
    <<"Z", "E", "(", "L", "M", "N", "R", "S", "T", ")", "-", "3", "^">>, <<"Z", "E">>, <<"Z", "E">>,
    <<"Z", "I", "E", "J", "$">>, <<"Z", "I">>, <<"Z", "I">>,
    <<"Z", "I", "G", "E", "R", "J", "A", "(", "H", "R", ")", "-", "3">>, <<"Z", "I", "G", "A", " ", "I", "A">>, <<"Z", "I", "K", "A", " ", "I", "A">>,
    <<"Z", "L", "(", "A", "E", "I", "O", "U", ")", "-">>, <<"S", "L">>, None,
    <<"Z", "S", "(", "C", "H", "T", ")", "-", "-">>, <<>>, <<>>,
    <<"Z", "S">>, <<"S", "H">>, <<"Z">>,
    <<"Z", "U", "E", "R", "S", "T">>, <<"Z", "U", "E", "R", "S", "T">>, <<"Z", "U", "E", "R", "S", "T">>,
    <<"Z", "U", "G", "R", "U", "N", "D", "E", "^", "$">>, <<"Z", "U", " ", "G", "R", "U", "N", "D", "E">>, <<"Z", "U", " ", "K", "R", "U", "N", "T", "E">>,
    <<"Z", "U", "G", "R", "U", "N", "D", "E">>, <<"Z", "U", " ", "G", "R", "U", "N", "D", "E", " ">>, <<"Z", "U", " ", "K", "R", "U", "N", "T", "E", " ">>,
    <<"Z", "U", "G", "U", "N", "S", "T", "E", "N">>, <<"Z", "U", " ", "G", "U", "N", "S", "T", "N">>, <<"Z", "U", " ", "K", "U", "N", "Z", "T", "N">>,
    <<"Z", "U", "H", "A", "U", "S", "E", "-">>, <<"Z", "U", " ", "H", "A", "U", "S">>, <<"Z", "U", " ", "A", "U", "Z">>,
    <<"Z", "U", "L", "A", "S", "T", "E", "N", "^", "$">>, <<"Z", "U", " ", "L", "A", "S", "T", "N">>, <<"Z", "U", " ", "L", "A", "Z", "T", "N">>,
    <<"Z", "U", "R", "U", "E", "C", "K", "^", "^">>, <<"Z", "U", "R", "Uuml", "K">>, <<"Z", "U", "R", "I", "K">>,
    <<"Z", "U", "R", "Z", "E", "I", "T">>, <<"Z", "U", "R", " ", "Z", "E", "I", "T">>, <<"Z", "U", "R", " ", "Z", "E", "I", "T">>,
    <<"Z", "U", "R", "Uuml", "C", "K", "^", "^">>, <<"Z", "U", "R", "Uuml", "K">>, <<"Z", "U", "R", "I", "K">>,
    <<"Z", "U", "S", "T", "A", "N", "D", "E">>, <<"Z", "U", " ", "S", "T", "A", "N", "D", "E">>, <<"Z", "U", " ", "Z", "T", "A", "N", "T", "E">>,
    <<"Z", "U", "T", "A", "G", "E">>, <<"Z", "U", " ", "T", "A", "G", "E">>, <<"Z", "U", " ", "T", "A", "K", "E">>,
    <<"Z", "U", "V", "E", "R", "^", "^">>, <<"Z", "U", "F", "A">>, <<"Z", "U", "F", "A">>,
    <<"Z", "U", "V", "I", "E", "L">>, <<"Z", "U", " ", "F", "I", "L">>, <<"Z", "U", " ", "F", "I", "L">>,
    <<"Z", "U", "W", "E", "N", "I", "G">>, <<"Z", "U", " ", "W", "E", "N", "I", "K">>, <<"Z", "U", " ", "F", "E", "N", "I", "K">>,
    <<"Z", "Y", "9", "^">>, <<"Z", "Uuml">>, None,
    <<"Z", "Y", "K", "3", "$">>, <<"Z", "I", "K">>, None,
    <<"Z", "(", "V", "W", ")", "7", "^">>, <<"S", "W">>, None,
    None, None, None
  >>

----------------------------------------------------------------------------
(* Characters                                                              *)

UpperLetters ==
  <<"A", "B", "C", "D", "E", "F", "G", "H", "I", "J", "K", "L", "M",
    "N", "O", "P", "Q", "R", "S", "T", "U", "V", "W", "X", "Y", "Z">>

LowerLetters ==
  <<"a", "b", "c", "d", "e", "f", "g", "h", "i", "j", "k", "l", "m",
    "n", "o", "p", "q", "r", "s", "t", "u", "v", "w", "x", "y", "z">>

\* The umlaut set of _initialize_phonet (alpha_pos = 1).
UmlautLetters ==
  {"Agrave", "Aacute", "Acirc", "Atilde", "Auml", "Aring", "AElig",
   "Ccedil", "Egrave", "Eacute", "Ecirc", "Euml", "Igrave", "Iacute",
   "Icirc", "Iuml", "ETH", "Ntilde", "Ograve", "Oacute", "Ocirc",
   "Otilde", "Ouml", "Oslash", "Ugrave", "Uacute", "Ucirc", "Uuml",
   "Yacute", "THORN", "szlig", "OElig", "Scaron", "Yuml"}

LowerUmlauts ==
  {"agrave", "aacute", "acirc", "atilde", "aring", "auml", "aelig",
   "ccedil", "eth", "egrave", "eacute", "ecirc", "euml", "igrave",
   "iacute", "icirc", "iuml", "ntilde", "ograve", "oacute", "ocirc",
   "otilde", "ouml", "oslash", "oelig", "scaron", "thorn", "ugrave",
   "uacute", "ucirc", "uuml", "yacute", "yuml"}

Digits == {"0", "1", "2", "3", "4", "5", "6", "7", "8", "9"}

Punctuation ==
  {" ", "quot", "$", "'", "(", ")", ",", "-", ".", ":", ";", "<", "^",
   "grave", "acute", "combacute"}

Range(s) == {s[k] : k \in DOMAIN s}

\* Every character the model knows, and "" (the empty str used as a key).
Chars ==
  Range(UpperLetters) \cup Range(LowerLetters) \cup UmlautLetters
    \cup LowerUmlauts \cup Digits \cup Punctuation

Keys == Chars \cup {""}

\* str.isalpha() and str.isdigit() on a str of length at most one.
IsAlpha(c) ==
  c \in Range(UpperLetters) \cup Range(LowerLetters) \cup UmlautLetters
          \cup LowerUmlauts

IsDigit(c) == c \in Digits

\* int(c) for a digit character.
DigitValue(c) ==
  CASE c = "0" -> 0 [] c = "1" -> 1 [] c = "2" -> 2 [] c = "3" -> 3
    [] c = "4" -> 4 [] c = "5" -> 5 [] c = "6" -> 6 [] c = "7" -> 7
    [] c = "8" -> 8 [] c = "9" -> 9

----------------------------------------------------------------------------
(* Python str operations on sequences of characters                        *)

Min(a, b) == IF a < b THEN a ELSE b
Max(a, b) == IF a < b THEN b ELSE a

\* s[a:b] for 0 <= a, with Python's clamping of the bounds.
Slice(s, a, b) == SubSeq(s, a + 1, Min(b, Len(s)))

\* s[a:]
From(s, a) == SubSeq(s, a + 1, Len(s))

\* s[k:k+1] as a character: "" past the end.
CharAt(s, k) == IF k >= 0 /\ k < Len(s) THEN s[k + 1] ELSE ""

\* r in s for str r, s: r is a contiguous part of s.
IsSubstring(r, s) ==
  \E k \in 0..(Len(s) - Len(r)) : SubSeq(s, k + 1, k + Len(r)) = r

\* ('<' in s[1:]) and ('^^' in s[1:])
HasAfterFirst(r, s) == IsSubstring(r, From(s, 1))

\* The string '(-<^$' of the two matching loops.
Markers == <<"(", "-", "<", "^", "$">>

\* Entry p (0-based) of a rule table.
RuleAt(rules, p) == rules[p + 1]

\* Truth value of a table entry: None and '' are false.
Truthy(x) == x # None /\ x # <<>>

----------------------------------------------------------------------------
(* Rule tables and index construction                                      *)

\* The table selection made at the head of _initialize_phonet and _phonet:
\* every selector other than 'none' selects the German table.
RulesFor(lang) ==
  IF lang = "none" THEN phonet_rules_no_lang ELSE phonet_rules_german

\* A Python Counter: a dict that gives 0 for a key that was never set.
Get(c, k) == IF k \in DOMAIN c THEN c[k] ELSE 0
Put(c, k, v) == (k :> v) @@ c

\* The Counters phonet_hash_1 and phonet_hash_2 have the keys (a, b): they
\* are kept as one Counter per first component a.
Get2(c, a, b) == IF a \in DOMAIN c THEN Get(c[a], b) ELSE 0
Put2(c, a, b, v) ==
  (a :> Put(IF a \in DOMAIN c THEN c[a] ELSE <<>>, b, v)) @@ c

\* The four Counters created by each call of phonet, all empty.
EmptyCounters ==
  [phonet_hash   |-> <<>>,
   alpha_pos     |-> <<>>,
   phonet_hash_1 |-> <<>>,
   phonet_hash_2 |-> <<>>]

\* The part of _initialize_phonet before the loop over the rules.
ResetCounters(ix) ==
  [phonet_hash |->
     [k \in {""} \cup UmlautLetters \cup Range(UpperLetters) |-> -1]
       @@ ix.phonet_hash,
   alpha_pos |->
     [k \in Range(UpperLetters) |->
        1 + (CHOOSE n \in 1..26 : UpperLetters[n] = k)]
       @@ [k \in UmlautLetters |-> 1] @@ ix.alpha_pos,
   phonet_hash_1 |->
     [a \in 0..25 |->
        [b \in 0..27 |-> -1]
          @@ (IF a \in DOMAIN ix.phonet_hash_1
              THEN ix.phonet_hash_1[a] ELSE <<>>)]
       @@ ix.phonet_hash_1,
   phonet_hash_2 |->
     [a \in 0..25 |->
        [b \in 0..27 |-> -1]
          @@ (IF a \in DOMAIN ix.phonet_hash_2
              THEN ix.phonet_hash_2[a] ELSE <<>>)]
       @@ ix.phonet_hash_2]

\* One turn of "while rule and (rule[0] != ')')" for the letter rule[0]:
\* i is the rule's position, j the leading letter's row.
SecondHashLetter(ix, i, j, c) ==
  LET k0 == Get(ix.alpha_pos, c)
      h1 == IF k0 > 0 /\ Get2(ix.phonet_hash_1, j, k0) < 0
            THEN [ix EXCEPT
                    !.phonet_hash_1 = Put2(@, j, k0, i),
                    !.phonet_hash_2 = Put2(@, j, k0, i)]
            ELSE ix
      near == k0 > 0 /\ Get2(h1.phonet_hash_2, j, k0) >= i - 30
      h2 == IF near
            THEN [h1 EXCEPT !.phonet_hash_2 = Put2(@, j, k0, i)]
            ELSE h1
      k  == IF k0 > 0 /\ ~near THEN -1 ELSE k0
  IN  IF k <= 0
      THEN [h2 EXCEPT
              !.phonet_hash_1 =
                 IF Get2(@, j, 0) < 0 THEN Put2(@, j, 0, i) ELSE @,
              !.phonet_hash_2 = Put2(@, j, 0, i)]
      ELSE h2

\* "while rule and (rule[0] != ')')".  (The test on `next` is always true:
\* it makes the Counters a value before the next turn.)
RECURSIVE SecondHash(_, _, _, _)
SecondHash(ix, i, j, rule) ==
  IF rule # <<>> /\ rule[1] # ")"
  THEN LET next == SecondHashLetter(ix, i, j, rule[1])
       IN  IF DOMAIN next # {}
           THEN SecondHash(next, i, j, Tail(rule))
           ELSE next
  ELSE ix

\* The body of "for i in range(len(_phonet_rules))" for one i.
IndexRule(ix, rules, i) ==
  LET rule == RuleAt(rules, i) IN
  IF Truthy(rule) /\ i % 3 = 0
  THEN
    LET k  == rule[1]
        h0 == IF Get(ix.phonet_hash, k) < 0
                 /\ (Truthy(RuleAt(rules, i + 1))
                       \/ Truthy(RuleAt(rules, i + 2)))
              THEN [ix EXCEPT !.phonet_hash = Put(@, k, i)]
              ELSE ix
    IN  IF Get(h0.alpha_pos, k) >= 2
        THEN LET j    == Get(h0.alpha_pos, k) - 2
                 rest == Tail(rule)
                 sig  == IF rest = <<>> THEN <<" ">>
                         ELSE IF rest[1] = "(" THEN Tail(rest)
                         ELSE <<rest[1]>>
             IN  SecondHash(h0, i, j, sig)
        ELSE h0
  ELSE ix

\* The loop over the rules, positions lo..hi, run as two halves one after
\* the other.  (The test on `left` is always true: it makes the first half
\* a value before the second half starts, which keeps evaluation shallow.)
RECURSIVE IndexRules(_, _, _, _)
IndexRules(ix, rules, lo, hi) ==
  IF lo > hi THEN ix
  ELSE IF lo = hi THEN IndexRule(ix, rules, lo)
  ELSE LET mid  == (lo + hi) \div 2
           left == IndexRules(ix, rules, lo, mid)
       IN  IF DOMAIN left # {}
           THEN IndexRules(left, rules, mid + 1, hi)
           ELSE left

\* _initialize_phonet(lang) applied to the Counters ix.
InitializeCounters(ix, rules) ==
  IndexRules(ResetCounters(ix), rules, 0, Len(rules) - 1)

\* The index a fresh call builds for each table.
IndexNoLang == InitializeCounters(EmptyCounters, phonet_rules_no_lang)
IndexGerman == InitializeCounters(EmptyCounters, phonet_rules_german)

----------------------------------------------------------------------------
(* Dispatch: the candidate ranges of a character                           *)

\* A variant that leaves two overlapping ranges as they are.
JoinRangesNever(s1, e1, s2, e2) ==
  [start1 |-> s1, end1 |-> e1, start2 |-> s2, end2 |-> e2]

\* "if (end1 >= start2) and (start2 >= 0)": two overlapping ranges are
\* joined into one.
JoinRanges(s1, e1, s2, e2) ==
  IF e1 >= s2 /\ s2 >= 0
  THEN [start1 |-> s1, end1 |-> IF e2 > e1 THEN e2 ELSE e1,
        start2 |-> -1, end2 |-> -1]
  ELSE [start1 |-> s1, end1 |-> e1, start2 |-> s2, end2 |-> e2]

\* A variant of "preserve rule priorities" that keeps the range of the
\* letter and its follower first whenever there is one.
OrderRangesSpecificFirst(s1, e1, s2, e2) ==
  IF s2 >= 0 /\ s1 < 0
  THEN JoinRanges(s2, e2, s1, e1)
  ELSE JoinRanges(s1, e1, s2, e2)

\* "preserve rule priorities": the range that starts first comes first.
OrderRanges(s1, e1, s2, e2) ==
  IF s2 >= 0 /\ (s1 < 0 \/ s2 < s1)
  THEN JoinRanges(s2, e2, s1, e1)
  ELSE JoinRanges(s1, e1, s2, e2)

\* The ranges [start1, end1] and [start2, end2] of rule positions for
\* character c followed by character n ("" at the end of src): the same
\* code serves the scan position and the continuation lookahead.
Dispatch(ix, c, n) ==
  IF Get(ix.alpha_pos, c) >= 2
  THEN OrderRanges(
         Get2(ix.phonet_hash_1, Get(ix.alpha_pos, c) - 2,
              Get(ix.alpha_pos, n)),
         Get2(ix.phonet_hash_2, Get(ix.alpha_pos, c) - 2,
              Get(ix.alpha_pos, n)),
         Get2(ix.phonet_hash_1, Get(ix.alpha_pos, c) - 2, 0),
         Get2(ix.phonet_hash_2, Get(ix.alpha_pos, c) - 2, 0))
  ELSE [start1 |-> Get(ix.phonet_hash, c), end1 |-> 10000,
        start2 |-> -1, end2 |-> -1]

\* The loop test "(_phonet_rules[pos] is None) or
\* (_phonet_rules[pos][0] == char)".
LeadsWith(rules, pos, char) ==
  RuleAt(rules, pos) = None \/ RuleAt(rules, pos)[1] = char

\* A variant that reads the column after the one of the mode.
UnavailableNextColumn(rules, pos, mode) ==
  RuleAt(rules, pos) = None \/ RuleAt(rules, pos + mode + 1) = None

\* A variant that looks at the pattern only, not at the replacement.
UnavailablePatternOnly(rules, pos, mode) == RuleAt(rules, pos) = None

\* "no conversion rule available": the rule has no replacement for mode.
Unavailable(rules, pos, mode) ==
  RuleAt(rules, pos) = None \/ RuleAt(rules, pos + mode) = None

\* Reading _phonet_rules[pos] and _phonet_rules[pos][0] raises IndexError
\* past the end of the table and on an empty pattern.
BadRead(rules, pos) ==
  pos >= Len(rules) \/ RuleAt(rules, pos) = <<>>

----------------------------------------------------------------------------
(* Matching one candidate rule at position i of src                        *)

\* ord() of the pattern character that follows the literal run and the
\* letter class; ord(c) is above every priority for each such character.
Ord(c) ==
  CASE c = "$" -> 36 [] c = "(" -> 40 [] c = ")" -> 41 [] c = "-" -> 45
    [] c = "<" -> 60 [] c = "^" -> 94 [] c = " " -> 32 [] c = "." -> 46
    [] c = "'" -> 39
    [] IsDigit(c) -> 48 + DigitValue(c)
    [] c \in Range(UpperLetters) ->
         64 + (CHOOSE n \in 1..26 : UpperLetters[n] = c)
    [] OTHER -> 128

\* "while (rule and (len(src) > (i + matches)) and
\*         (src[i + matches] == rule[0]) and not rule[0].isdigit() and
\*         (rule not in '(-<^$'))"
RECURSIVE LiteralRun(_, _, _, _)
LiteralRun(src, i, matches, rule) ==
  IF /\ rule # <<>>
     /\ Len(src) > i + matches
     /\ CharAt(src, i + matches) = rule[1]
     /\ ~IsDigit(rule[1])
     /\ ~IsSubstring(rule, Markers)
  THEN LiteralRun(src, i, matches + 1, Tail(rule))
  ELSE [matches |-> matches, rule |-> rule]

\* "while rule and rule[0] != ')': rule = rule[1:]" and then "rule[1:]".
RECURSIVE AfterClass(_)
AfterClass(rule) ==
  IF rule # <<>> /\ rule[1] # ")" THEN AfterClass(Tail(rule))
  ELSE IF rule = <<>> THEN <<>> ELSE Tail(rule)

\* A variant in which no array of letters ever matches.
LetterClassNever(src, i, lit) == lit

\* "check an array of letters": lit is the match after the literal run.
LetterClass(src, i, lit) ==
  IF /\ lit.rule # <<>>
     /\ lit.rule[1] = "("
     /\ Len(src) > i + lit.matches
     /\ IsAlpha(CharAt(src, i + lit.matches))
     /\ CharAt(src, i + lit.matches) \in Range(Tail(lit.rule))
  THEN [matches |-> lit.matches + 1, rule |-> AfterClass(lit.rule)]
  ELSE lit

\* A variant of the shortening that drops the dashes and leaves the number
\* of matches as it is.
RECURSIVE ShortenKeepsLength(_, _)
ShortenKeepsLength(matches, rule) ==
  IF rule # <<>> /\ rule[1] = "-" /\ matches > 1
  THEN ShortenKeepsLength(matches, Tail(rule))
  ELSE [matches |-> matches, rule |-> rule]

\* "while rule and rule[0] == '-' and matches > 1"
RECURSIVE Shorten(_, _)
Shorten(matches, rule) ==
  IF rule # <<>> /\ rule[1] = "-" /\ matches > 1
  THEN Shorten(matches - 1, Tail(rule))
  ELSE [matches |-> matches, rule |-> rule]

\* "if rule and rule[0] == '<': rule = rule[1:]"
SkipMerge(rule) ==
  IF rule # <<>> /\ rule[1] = "<" THEN Tail(rule) ELSE rule

\* A variant of "read priority" where a rule without a digit gets the
\* highest priority.
ReadPriorityMaximal(rule) ==
  IF rule # <<>> /\ IsDigit(rule[1])
  THEN [priority |-> DigitValue(rule[1]), rule |-> Tail(rule)]
  ELSE [priority |-> 9, rule |-> rule]

\* "read priority": a digit at the head of rule is the rule's priority.
ReadPriority(rule) ==
  IF rule # <<>> /\ IsDigit(rule[1])
  THEN [priority |-> DigitValue(rule[1]), rule |-> Tail(rule)]
  ELSE [priority |-> 5, rule |-> rule]

\* "if rule and rule[0:2] == '^^': rule = rule[1:]"
SkipReset(rule) ==
  IF Len(rule) >= 2 /\ rule[1] = "^" /\ rule[2] = "^"
  THEN Tail(rule) ELSE rule

\* The right word boundary test of the '$' anchor at position k of src.
AtWordEnd(src, k) == ~IsAlpha(CharAt(src, k)) /\ CharAt(src, k) # "."

\* A variant of the anchor test in which '$' looks at the right side only.
AcceptsRightOnly(src, i, matches0, rule) ==
  \/ rule = <<>>
  \/ /\ rule[1] = "^"
     /\ (i = 0 \/ ~IsAlpha(CharAt(src, i - 1)))
     /\ (CharAt(rule, 1) # "$" \/ AtWordEnd(src, i + matches0))
  \/ /\ rule[1] = "$"
     /\ AtWordEnd(src, i + matches0)

\* The anchor test that ends "check whole string": rule is what is left of
\* the pattern, matches0 the number of matching letters before shortening.
Accepts(src, i, matches0, rule) ==
  \/ rule = <<>>
  \/ /\ rule[1] = "^"
     /\ (i = 0 \/ ~IsAlpha(CharAt(src, i - 1)))
     /\ (CharAt(rule, 1) # "$" \/ AtWordEnd(src, i + matches0))
  \/ /\ rule[1] = "$"
     /\ i > 0
     /\ IsAlpha(CharAt(src, i - 1))
     /\ AtWordEnd(src, i + matches0)

\* A variant of the match in which the anchor test looks at the end of the
\* shortened match.
MatchFinishShortened(src, i, cls, short) ==
  [matches   |-> short.matches,
   matches0  |-> cls.matches,
   priority  |-> ReadPriority(SkipMerge(short.rule)).priority,
   priority0 |-> IF cls.rule # <<>> THEN Ord(cls.rule[1]) ELSE 0,
   accepted  |-> Accepts(src, i, short.matches,
                         SkipReset(ReadPriority(SkipMerge(short.rule)).rule))]

\* The match of a rule from the letter class on: cls is the match after
\* the class, short the match after the '-' shortening.
MatchFinish(src, i, cls, short) ==
  [matches   |-> short.matches,
   matches0  |-> cls.matches,
   priority  |-> ReadPriority(SkipMerge(short.rule)).priority,
   priority0 |-> IF cls.rule # <<>> THEN Ord(cls.rule[1]) ELSE 0,
   accepted  |-> Accepts(src, i, cls.matches,
                         SkipReset(ReadPriority(SkipMerge(short.rule)).rule))]

MatchAfterClass(src, i, cls) ==
  MatchFinish(src, i, cls, Shorten(cls.matches, cls.rule))

\* "check whole string" for the candidate rule at pos: the number of
\* matching letters after shortening (matches) and before (matches0), the
\* priority, the first value of priority0, and whether the anchors accept.
MatchRule(rules, pos, src, i) ==
  MatchAfterClass(src, i,
    LetterClass(src, i, LiteralRun(src, i, 1, Tail(RuleAt(rules, pos)))))

----------------------------------------------------------------------------
(* Continuation lookahead                                                  *)

\* "while (rule and (src[i+matches0:i+matches0+1] == rule[0]) and
\*         (not rule[0].isdigit() or (rule in '(-<^$')))"
RECURSIVE ContinuationRun(_, _, _, _)
ContinuationRun(src, i, matches0, rule) ==
  IF /\ rule # <<>>
     /\ CharAt(src, i + matches0) = rule[1]
     /\ (~IsDigit(rule[1]) \/ IsSubstring(rule, Markers))
  THEN ContinuationRun(src, i, matches0 + 1, Tail(rule))
  ELSE [matches0 |-> matches0, rule |-> rule]

\* "check an array of letters" of a continuation rule.
ContinuationClass(src, i, lit) ==
  IF /\ lit.rule # <<>>
     /\ lit.rule[1] = "("
     /\ IsAlpha(CharAt(src, i + lit.matches0))
     /\ CharAt(src, i + lit.matches0) \in Range(Tail(lit.rule))
  THEN [matches0 |-> lit.matches0 + 1, rule |-> AfterClass(lit.rule)]
  ELSE lit

\* "while rule and rule[0] == '-'": matches0 is not decremented.
RECURSIVE DropDashes(_)
DropDashes(rule) ==
  IF rule # <<>> /\ rule[1] = "-" THEN DropDashes(Tail(rule)) ELSE rule

\* The anchor test of a continuation rule ("rule == '^' is not possible
\* here"): k is i + matches0.
ContinuationAccepts(src, k, rule) ==
  rule = <<>> \/ (rule[1] = "$" /\ AtWordEnd(src, k))

\* The match of a continuation rule from the letter class on.
ContinuationFinish(src, i, cls) ==
  [matches0  |-> cls.matches0,
   priority0 |-> ReadPriority(SkipMerge(DropDashes(cls.rule))).priority,
   accepted  |->
     ContinuationAccepts(src, i + cls.matches0,
                         ReadPriority(SkipMerge(DropDashes(cls.rule))).rule)]

\* "check whole string" for the continuation rule at pos0, which starts at
\* the last character of a candidate match of length matches.
MatchContinuation(rules, pos0, src, i, matches) ==
  ContinuationFinish(src, i,
    ContinuationClass(src, i,
      ContinuationRun(src, i, matches, Tail(RuleAt(rules, pos0)))))

\* A call "_trinfo(text, rule, err_text, lang)" that is made when trace is
\* set.
TracePoint(text, rule, err_text) ==
  [text |-> text, rule |-> rule, err_text |-> err_text]

\* What the continuation loop reports about the match m of the rule at
\* pos0 when it goes on with the next rule.
ContinuationNote(cand, pos0, m) ==
  TracePoint("> > continuation rule no.", pos0,
             IF ~m.accepted THEN "not used"
             ELSE IF m.matches0 = cand.matches THEN "not used (too short)"
             ELSE "not used (priority)")

\* What the continuation loop does with the match m of the rule at pos0:
\* too short ("only a partial string") and too low a priority go on with
\* the next rule, otherwise "continuation rule found".
ContinuationJudge(cand, lk, m) ==
  IF /\ m.accepted
     /\ m.matches0 # cand.matches
     /\ m.priority0 >= cand.priority
  THEN [lk EXCEPT !.priority0 = m.priority0, !.status = "found"]
  ELSE [lk EXCEPT !.priority0 = m.priority0, !.pos0 = @ + 3,
                  !.traced = Append(@, ContinuationNote(cand, lk.pos0, m))]

\* One turn of the loop "check continuation rules for src[i+matches]".
\* The loop variables are pos0, start3, end3, start4, end4 and priority0;
\* status is "run" while the loop goes on, "exit" when the loop test
\* fails, "break" when the ranges are used up, "found" for "continuation
\* rule found" and "raise" for an IndexError.
ContinuationTurn(rules, mode, src, i, char0, cand, lk) ==
  IF BadRead(rules, lk.pos0)
  THEN [lk EXCEPT !.status = "raise"]
  ELSE IF ~LeadsWith(rules, lk.pos0, char0)
  THEN [lk EXCEPT !.status = "exit"]
  ELSE IF lk.pos0 > lk.end3
  THEN IF lk.start4 > 0
       THEN [lk EXCEPT !.pos0 = lk.start4, !.start3 = lk.start4,
                       !.start4 = -1, !.end3 = lk.end4, !.end4 = -1]
       ELSE [lk EXCEPT !.priority0 = -1, !.status = "break"]
  ELSE IF RuleAt(rules, lk.pos0) # None /\ lk.pos0 + mode >= Len(rules)
  THEN [lk EXCEPT !.status = "raise"]
  ELSE IF Unavailable(rules, lk.pos0, mode)
  THEN [lk EXCEPT !.pos0 = @ + 3]
  ELSE ContinuationJudge(cand,
         [lk EXCEPT !.traced =
            Append(@, TracePoint("> > continuation rule no.", lk.pos0,
                                 "is being checked"))],
         MatchContinuation(rules, lk.pos0, src, i, cand.matches))

\* n turns of the continuation loop, as two halves one after the other.
RECURSIVE ContinuationLoop(_, _, _, _, _, _, _, _)
ContinuationLoop(rules, mode, src, i, char0, cand, lk, n) ==
  IF lk.status # "run" THEN lk
  ELSE IF n <= 1
  THEN ContinuationTurn(rules, mode, src, i, char0, cand, lk)
  ELSE LET half == ContinuationLoop(rules, mode, src, i, char0, cand, lk,
                                    n \div 2)
       IN  IF half.status # "run" THEN half
           ELSE ContinuationLoop(rules, mode, src, i, char0, cand, half,
                                 n - (n \div 2))

\* The loop variables when the continuation loop starts on the ranges rg.
ContinuationStart(rg, cand) ==
  [pos0 |-> rg.start1, start3 |-> rg.start1, end3 |-> rg.end1,
   start4 |-> rg.start2, end4 |-> rg.end2, priority0 |-> cand.priority0,
   status |-> "run", traced |-> <<>>]

\* A variant of "end of while" that asks for a priority above the
\* candidate's.
VerdictStrict(rules, cand, char0, lk) ==
  [verdict |-> IF lk.status = "raise" THEN "raise"
               ELSE IF /\ lk.priority0 > cand.priority
                       /\ RuleAt(rules, lk.pos0) # None
                       /\ RuleAt(rules, lk.pos0)[1] = char0
               THEN "veto"
               ELSE "commit",
   pos0 |-> lk.pos0, traced |-> lk.traced]

\* "end of while": the candidate is displaced when the loop stopped at a
\* rule for char0 with priority0 >= priority.
Verdict(rules, cand, char0, lk) ==
  [verdict |-> IF lk.status = "raise" THEN "raise"
               ELSE IF /\ lk.priority0 >= cand.priority
                       /\ RuleAt(rules, lk.pos0) # None
                       /\ RuleAt(rules, lk.pos0)[1] = char0
               THEN "veto"
               ELSE "commit",
   pos0 |-> lk.pos0, traced |-> lk.traced]

\* The lookahead that looks at no continuation rule.
NoLookahead == [verdict |-> "commit", pos0 |-> -1, traced |-> <<>>]

\* The lookahead on the ranges rg of char0, the last matched character.
LookaheadFrom(rules, mode, src, i, cand, char0, rg) ==
  IF rg.start1 >= 0
  THEN Verdict(rules, cand, char0,
               ContinuationLoop(rules, mode, src, i, char0, cand,
                                ContinuationStart(rg, cand), Len(rules)))
  ELSE NoLookahead

\* "look for continuation": the verdict is "veto" when a continuation rule
\* displaces the candidate cand, "raise" for an IndexError and "commit"
\* otherwise; pos0 is where the continuation loop stopped and traced are
\* the trace points it passed.
Lookahead(ix, rules, mode, src, i, cand) ==
  IF /\ cand.matches > 1
     /\ CharAt(src, i + cand.matches) # ""
     /\ cand.priority0 # 45
  THEN LookaheadFrom(rules, mode, src, i, cand,
                     CharAt(src, i + cand.matches - 1),
                     Dispatch(ix, CharAt(src, i + cand.matches - 1),
                              CharAt(src, i + cand.matches)))
  ELSE NoLookahead

----------------------------------------------------------------------------
(* The candidate loop of one scan position                                 *)

\* A candidate that has not been matched yet.
NoMatch ==
  [matches |-> 0, matches0 |-> 0, priority |-> 5, priority0 |-> 0,
   accepted |-> FALSE]

\* The end of a turn whose rule does not match: "pos += 3" and the switch
\* to the second range at the bottom of the loop.
NextCandidate(cl) ==
  IF cl.pos + 3 > cl.end1 /\ cl.start2 > 0
  THEN [cl EXCEPT !.pos = cl.start2, !.start1 = cl.start2,
                  !.end1 = cl.end2, !.start2 = -1, !.end2 = -1]
  ELSE [cl EXCEPT !.pos = @ + 3]

\* What the lookahead la makes of the accepted match m.
CandidateVerdict(cl, m, la) ==
  IF la.verdict = "raise"
  THEN [cl EXCEPT !.status = "raise", !.traced = @ \o la.traced]
  ELSE IF la.verdict = "veto"
  THEN [cl EXCEPT !.pos = @ + 3,
                  !.traced = @ \o la.traced \o
                    <<TracePoint("> rule no.", cl.pos, ""),
                      TracePoint("> not used because of continuation",
                                 la.pos0, "")>>]
  ELSE [cl EXCEPT !.status = "commit", !.cand = m,
                  !.traced = @ \o la.traced]

\* What the candidate loop does with the match m of the rule at pos.
CandidateJudge(ix, rules, mode, src, i, cl, m) ==
  IF m.accepted
  THEN CandidateVerdict(cl, m, Lookahead(ix, rules, mode, src, i, m))
  ELSE NextCandidate(cl)

\* One turn of the loop "check rules for this char".  The loop variables
\* are pos, start1, end1, start2 and end2; status is "run" while the loop
\* goes on, "none" when it ends without a rule, "commit" when the rule at
\* pos is to be applied (cand is its match) and "raise" for an IndexError.
CandidateTurn(ix, rules, mode, src, i, char, cl) ==
  IF BadRead(rules, cl.pos)
  THEN [cl EXCEPT !.status = "raise"]
  ELSE IF ~LeadsWith(rules, cl.pos, char)
  THEN [cl EXCEPT !.status = "none"]
  ELSE IF cl.pos > cl.end1
  THEN IF cl.start2 > 0
       THEN [cl EXCEPT !.pos = cl.start2, !.start1 = cl.start2,
                       !.start2 = -1, !.end1 = cl.end2, !.end2 = -1]
       ELSE [cl EXCEPT !.status = "none"]
  ELSE IF RuleAt(rules, cl.pos) # None /\ cl.pos + mode >= Len(rules)
  THEN [cl EXCEPT !.status = "raise"]
  ELSE IF Unavailable(rules, cl.pos, mode)
  THEN [cl EXCEPT !.pos = @ + 3]
  ELSE CandidateJudge(ix, rules, mode, src, i,
                      [cl EXCEPT !.traced =
                         Append(@, TracePoint("> rule no.", cl.pos,
                                              "is being checked"))],
                      MatchRule(rules, cl.pos, src, i))

\* n turns of the candidate loop, as two halves one after the other.
RECURSIVE CandidateLoop(_, _, _, _, _, _, _, _)
CandidateLoop(ix, rules, mode, src, i, char, cl, n) ==
  IF cl.status # "run" THEN cl
  ELSE IF n <= 1 THEN CandidateTurn(ix, rules, mode, src, i, char, cl)
  ELSE LET half == CandidateLoop(ix, rules, mode, src, i, char, cl,
                                 n \div 2)
       IN  IF half.status # "run" THEN half
           ELSE CandidateLoop(ix, rules, mode, src, i, char, half,
                              n - (n \div 2))

\* The loop variables when the candidate loop starts on the ranges rg.
CandidateStart(rg) ==
  [pos |-> rg.start1, start1 |-> rg.start1, end1 |-> rg.end1,
   start2 |-> rg.start2, end2 |-> rg.end2, status |-> "run",
   cand |-> NoMatch, traced |-> <<>>]

\* "if pos >= 0": the candidate loop on the ranges rg of src[i].
ChooseFrom(ix, rules, mode, src, i, rg) ==
  IF rg.start1 >= 0
  THEN CandidateLoop(ix, rules, mode, src, i, CharAt(src, i),
                     CandidateStart(rg), Len(rules))
  ELSE [CandidateStart(rg) EXCEPT !.status = "none"]

\* The rule chosen at position i of src.
ChooseRule(ix, rules, mode, src, i) ==
  ChooseFrom(ix, rules, mode, src, i,
             Dispatch(ix, CharAt(src, i), CharAt(src, i + 1)))

----------------------------------------------------------------------------
(* Applying a rule and writing the output                                  *)

\* "dest = dest[0:j] + c + dest[min(lim, j+1):]"
PutChar(dest, j, c, lim) ==
  Slice(dest, 0, j) \o <<c>> \o From(dest, Min(lim, j + 1))

\* "while len(rule) > 1": every replacement character but the last is
\* written unless it equals the character just written.
RECURSIVE WriteHead(_, _, _)
WriteHead(dest, j, rule) ==
  IF Len(rule) > 1
  THEN IF j = 0 \/ CharAt(dest, j - 1) # rule[1]
       THEN WriteHead(PutChar(dest, j, rule[1], Len(dest)), j + 1,
                      Tail(rule))
       ELSE WriteHead(dest, j, Tail(rule))
  ELSE [dest |-> dest, j |-> j]

\* A variant that never takes back a character of the output.
RetractNever(lc, rule, char) == lc.j

\* "if (j > 0) and rule and ((dest[j-1] == char) or (dest[j-1] ==
\* rule[0])): j -= 1"
Retract(lc, rule, char) ==
  IF /\ lc.j > 0
     /\ rule # <<>>
     /\ \/ CharAt(lc.dest, lc.j - 1) = char
        \/ CharAt(lc.dest, lc.j - 1) = rule[1]
  THEN lc.j - 1
  ELSE lc.j

\* src after "while rule and src[i+matches0]" and "if matches0 < matches":
\* the replacement overwrites src from i on, what is left of the match is
\* deleted.
Overwrite(src, i, rule, matches) ==
  IF Len(rule) < matches
  THEN Slice(src, 0, i) \o rule \o From(src, i + matches)
  ELSE Slice(src, 0, i) \o rule \o From(src, i + Len(rule))

\* "rule with '<' is applied": the replacement is written into src in
\* place, the last output character may be retracted, i is unchanged.
\* Reading src[i+matches0] past the end of src, and src[i] of a src that
\* ends at i, raises IndexError.
MergeRule(lc, rule, matches, char) ==
  IF \/ lc.i + Len(rule) > Len(lc.src)
     \/ lc.i >= Len(Overwrite(lc.src, lc.i, rule, matches))
  THEN [locals |-> lc, raised |-> TRUE, kind |-> "merge"]
  ELSE [locals |-> [lc EXCEPT !.j = Retract(lc, rule, char),
                              !.zeta = @ + 1,
                              !.src = Overwrite(@, lc.i, rule, matches)],
        raised |-> FALSE, kind |-> "merge"]

\* A variant that writes nothing and leaves the cursor where it is.
WriteCharInPlace(lc, char) == [lc EXCEPT !.zeta = 0]

\* A variant without the test on the character just written.
WriteCharAlways(lc, char) ==
  IF char # ""
  THEN [lc EXCEPT !.dest = PutChar(@, lc.j, char, lc.term_length),
                  !.j = @ + 1, !.i = @ + 1, !.zeta = 0]
  ELSE [lc EXCEPT !.i = @ + 1, !.zeta = 0]

\* "if zeta0 == 0": the current character is written unless it equals the
\* character just written ("delete multiple letters only"), i advances.
WriteChar(lc, char) ==
  IF char # "" /\ (lc.j = 0 \/ CharAt(lc.dest, lc.j - 1) # char)
  THEN [lc EXCEPT !.dest = PutChar(@, lc.j, char, lc.term_length),
                  !.j = @ + 1, !.i = @ + 1, !.zeta = 0]
  ELSE [lc EXCEPT !.i = @ + 1, !.zeta = 0]

\* A variant that reads the column of the other mode.
ReplacementOtherMode(rules, pos, mode) == RuleAt(rules, pos + 3 - mode)

\* A variant that reads one column to the left.
ReplacementOffByOne(rules, pos, mode) == RuleAt(rules, pos + mode - 1)

\* "rule = _phonet_rules[pos + mode]": the replacement of the active mode.
Replacement(rules, pos, mode) == RuleAt(rules, pos + mode)

\* "new current char": the last character of the replacement, or ''.
LastChar(rule) == IF rule = <<>> THEN "" ELSE rule[Len(rule)]

\* A variant that restarts at 0 without dropping the consumed part of src.
ResetSourceKept(lc, char) ==
  IF char # ""
  THEN [lc EXCEPT !.dest = PutChar(@, lc.j, char, Len(lc.dest)),
                  !.j = @ + 1, !.i = 0]
  ELSE [lc EXCEPT !.i = 0]

\* The '^^' branch: the last replacement character is written, the
\* consumed part of src is dropped and the scan restarts at 0.
ResetSource(lc, char) ==
  IF char # ""
  THEN [lc EXCEPT !.dest = PutChar(@, lc.j, char, Len(lc.dest)),
                  !.j = @ + 1,
                  !.src = From(@, lc.i + 1),
                  !.i = 0]
  ELSE [lc EXCEPT !.src = From(@, lc.i + 1), !.i = 0]

\* The locals after "i = i + matches - 1; zeta = 0" and the loop that
\* writes all but the last replacement character.
WriteReplacement(lc, rule, matches) ==
  [lc EXCEPT !.i = @ + matches - 1, !.zeta = 0,
             !.dest = WriteHead(lc.dest, lc.j, rule).dest,
             !.j = WriteHead(lc.dest, lc.j, rule).j]

\* A variant in which a '^^' rule is committed as any other rule.
ReplaceRuleNoReset(lc, pattern, rule, matches) ==
  [locals |-> WriteChar(WriteReplacement(lc, rule, matches), LastChar(rule)),
   raised |-> FALSE,
   kind |-> IF HasAfterFirst(<<"^", "^">>, pattern) THEN "reset"
            ELSE "replace"]

\* The else branch of the commit: the replacement goes to dest; a '^^'
\* rule then drops the consumed prefix of src and restarts at 0.
ReplaceRule(lc, pattern, rule, matches) ==
  IF HasAfterFirst(<<"^", "^">>, pattern)
  THEN [locals |-> ResetSource(WriteReplacement(lc, rule, matches),
                               LastChar(rule)),
        raised |-> FALSE, kind |-> "reset"]
  ELSE [locals |-> WriteChar(WriteReplacement(lc, rule, matches),
                             LastChar(rule)),
        raised |-> FALSE, kind |-> "replace"]

\* A variant that rewrites in place whatever zeta is.
ApplyRuleAnyZeta(rules, mode, pos, matches, lc) ==
  IF HasAfterFirst(<<"<">>, RuleAt(rules, pos))
  THEN MergeRule(lc, Replacement(rules, pos, mode), matches,
                 CharAt(lc.src, lc.i))
  ELSE ReplaceRule(lc, RuleAt(rules, pos), Replacement(rules, pos, mode),
                   matches)

\* "replace string": the rule at pos is applied in mode `mode`.
ApplyRule(rules, mode, pos, matches, lc) ==
  IF HasAfterFirst(<<"<">>, RuleAt(rules, pos)) /\ lc.zeta = 0
  THEN MergeRule(lc, Replacement(rules, pos, mode), matches,
                 CharAt(lc.src, lc.i))
  ELSE ReplaceRule(lc, RuleAt(rules, pos), Replacement(rules, pos, mode),
                   matches)

\* What a turn of the scan loop does once the candidate loop has ended
\* as cl.
TurnOf(rules, mode, lc, cl) ==
  IF cl.status = "raise"
  THEN [locals |-> lc, raised |-> TRUE, kind |-> "raise",
        pos |-> cl.pos, matches |-> 0, traced |-> cl.traced]
  ELSE IF cl.status = "commit"
  THEN [pos |-> cl.pos, matches |-> cl.cand.matches,
        traced |-> Append(cl.traced,
                          TracePoint("Rule no.", cl.pos, "is applied"))]
         @@ ApplyRule(rules, mode, cl.pos, cl.cand.matches, lc)
  ELSE [locals |-> WriteChar(lc, CharAt(lc.src, lc.i)), raised |-> FALSE,
        kind |-> "literal", pos |-> -1, matches |-> 1,
        traced |-> cl.traced]

\* One turn of "while i < len(src)": the locals after the turn, whether it
\* raised, what it did ("literal" when no rule was applied) and the trace
\* points it passed.
ScanTurn(ix, rules, mode, lc) ==
  TurnOf(rules, mode, lc, ChooseRule(ix, rules, mode, lc.src, lc.i))

----------------------------------------------------------------------------
(* The caller: phonet(word, mode, lang)                                    *)

\* _phonet_upper_translation on the accented lower-case letters.
UpperUmlaut ==
  [agrave |-> "Agrave", aacute |-> "Aacute", acirc |-> "Acirc",
   atilde |-> "Atilde", aring |-> "Aring", auml |-> "Auml",
   aelig |-> "AElig", ccedil |-> "Ccedil", eth |-> "ETH",
   egrave |-> "Egrave", eacute |-> "Eacute", ecirc |-> "Ecirc",
   euml |-> "Euml", igrave |-> "Igrave", iacute |-> "Iacute",
   icirc |-> "Icirc", iuml |-> "Iuml", ntilde |-> "Ntilde",
   ograve |-> "Ograve", oacute |-> "Oacute", ocirc |-> "Ocirc",
   otilde |-> "Otilde", ouml |-> "Ouml", oslash |-> "Oslash",
   oelig |-> "OElig", scaron |-> "Scaron", szlig |-> "szlig",
   thorn |-> "THORN", ugrave |-> "Ugrave", uacute |-> "Uacute",
   ucirc |-> "Ucirc", uuml |-> "Uuml", yacute |-> "Yacute",
   yuml |-> "Yuml"]

\* A variant that converts the letters a-z only.
UpperTranslationAscii(c) ==
  IF c \in Range(LowerLetters)
  THEN UpperLetters[CHOOSE n \in 1..26 : LowerLetters[n] = c]
  ELSE c

\* One character through _phonet_upper_translation.
UpperTranslation(c) ==
  IF c \in Range(LowerLetters)
  THEN UpperLetters[CHOOSE n \in 1..26 : LowerLetters[n] = c]
  ELSE IF c \in DOMAIN UpperUmlaut THEN UpperUmlaut[c]
  ELSE c

\* term.translate(_phonet_upper_translation)
RECURSIVE Translate(_)
Translate(term) ==
  IF term = <<>> THEN <<>>
  ELSE <<UpperTranslation(Head(term))>> \o Translate(Tail(term))

\* unicodedata.normalize('NFKC', word) on the characters of Chars that a
\* caller passes: the spacing acute accent becomes a space and a combining
\* acute; every other character of Chars is stable.  (A combining acute
\* is no input character, so nothing composes.)
RECURSIVE NFKC(_)
NFKC(word) ==
  IF word = <<>> THEN <<>>
  ELSE (IF Head(word) = "acute" THEN <<" ", "combacute">>
        ELSE <<Head(word)>>) \o NFKC(Tail(word))

\* _initialize_phonet(lang) on the Counters ix of a call.  The Counters of
\* a call are created empty, and the index of empty Counters is the same
\* at every call: it is computed once per table.
InitializePhonet(ix, lang) ==
  IF ix = EmptyCounters
  THEN IF lang = "none" THEN IndexNoLang ELSE IndexGerman
  ELSE InitializeCounters(ix, RulesFor(lang))

\* A variant of the early return that answers None for the empty word.
ReturnsNone == <<"None">>

\* "if not term: return ''"
EmptyResult == <<>>

\* A variant that scans the term as it was passed, not upper-cased.
EnterScanRaw(term) ==
  [src |-> term, dest |-> term, i |-> 0, j |-> 0, zeta |-> 0,
   term_length |-> Len(term)]

\* The locals of _phonet when the scan loop is entered.
EnterScan(term) ==
  [src |-> Translate(term), dest |-> term, i |-> 0, j |-> 0, zeta |-> 0,
   term_length |-> Len(term)]

\* A variant in which the Counters are module-level and shared by all calls.
SharedCounters(c) == 1

\* The Counters a call uses: "phonet_hash = Counter()" and the three
\* others are locals of phonet, created anew by every call.
CountersOf(c) == c

----------------------------------------------------------------------------
(* The state machine                                                       *)

\* The longest generated word.
MaxLen == 3

\* The characters of the generated words.
Alphabet == {"S", "P", "C", "H", "-"}

\* Words of the doctests and words that reach the rarer branches.
ScenarioWords ==
  {<<"C", "h", "r", "i", "s", "t", "o", "p", "h", "e", "r">>,
   <<"N", "i", "a", "l", "l">>,
   <<"S", "m", "i", "t", "h">>,
   <<"S", "c", "h", "m", "i", "d", "t">>,
   <<"N", "I", "A", "L", "L">>,
   <<"P", "S", "-", "P", "S">>,
   <<"G">>, <<"M">>, <<"szlig">>, <<"M", "acute">>, <<"G", "G">>,
   <<"A", "C", "H">>, <<"1", "a">>,
   <<"v", "a", "n", " ", "d", "e", "n", " ">>,
   <<"Auml">>, <<"Ntilde">>,
   <<"C", "H", "R", "I", "S", "T", "O", "P", "H", "E", "R">>,
   <<"S", "M", "I", "T", "H">>,
   <<"S", "C", "H", "M", "I", "D", "T">>,
   <<"E", "Y", "A">>, <<"D", "D", "A">>,
   <<"F", "A", "N">>, <<"A", "S", "U", "K", "E">>,
   <<"U", "N", "N", "O", "N">>, <<"D", "D", "S">>, <<"Q", "H">>}

BoundedWords == UNION {[1..n -> Alphabet] : n \in 0..MaxLen}

Words == BoundedWords \cup ScenarioWords

Modes == {1, 2}
Langs == {"de", "none"}

\* What a caller may pass when nothing checks the arguments.
AnyModes == {0, 1, 2, 3}
AnyLangs == {"de", "none", "en"}

Calls == {1, 2}

VARIABLES
  args,      \* args[c]: the (word, mode, lang) of call c
  pc,        \* pc[c]: where call c is
  counters,  \* counters[k]: the four Counters with identity k
  frame,     \* frame[c]: the locals of _phonet in call c
  result,    \* result[c]: what call c returned
  steps      \* steps[c]: history of the scan iterations of call c

vars == <<args, pc, counters, frame, result, steps>>

NoArgs == [word |-> <<>>, mode |-> 1, lang |-> "none"]
NoFrame == [src |-> <<>>, dest |-> <<>>, i |-> 0, j |-> 0, zeta |-> 0,
            term_length |-> 0]

InitWith(argsOf, running) ==
  /\ args = argsOf
  /\ pc = [c \in Calls |-> IF c \in running THEN "start" ELSE "idle"]
  /\ counters = [c \in Calls |-> EmptyCounters]
  /\ frame = [c \in Calls |-> NoFrame]
  /\ result = [c \in Calls |-> <<>>]
  /\ steps = [c \in Calls |-> <<>>]

\* One call with valid arguments.
Init ==
  \E w \in Words, m \in Modes, l \in Langs :
    InitWith((1 :> [word |-> w, mode |-> m, lang |-> l]) @@ (2 :> NoArgs),
             {1})

\* "_initialize_phonet(lang)"
Initialize ==
  \E c \in Calls :
    /\ pc[c] = "start"
    /\ counters' = [counters EXCEPT
                      ![CountersOf(c)] = InitializePhonet(@, args[c].lang)]
    /\ pc' = [pc EXCEPT ![c] = "enter"]
    /\ UNCHANGED <<args, frame, result, steps>>

\* "word = unicodedata.normalize('NFKC', ...)" and _phonet up to the loop.
Enter ==
  \E c \in Calls :
    /\ pc[c] = "enter"
    /\ LET term == NFKC(args[c].word) IN
       IF term = <<>>
       THEN /\ result' = [result EXCEPT ![c] = EmptyResult]
            /\ pc' = [pc EXCEPT ![c] = "done"]
            /\ UNCHANGED frame
       ELSE /\ frame' = [frame EXCEPT ![c] = EnterScan(term)]
            /\ pc' = [pc EXCEPT ![c] = "scan"]
            /\ UNCHANGED result
    /\ UNCHANGED <<args, counters, steps>>

\* The trace argument of call c: "trace=False" when it is not passed.
TraceOf(c) == IF "trace" \in DOMAIN args[c] THEN args[c].trace ELSE FALSE

\* A variant of _trinfo without the '(NULL)' substitution: it fails on a
\* rule that lacks a replacement.
TrInfoNoNull(point, lang) ==
  [raised |-> \/ point.rule + 2 >= Len(RulesFor(lang))
              \/ RuleAt(RulesFor(lang), point.rule + 1) = None
              \/ RuleAt(RulesFor(lang), point.rule + 2) = None,
   line |-> <<point.text, point.rule \div 3 + 1, point.err_text>>]

\* "_trinfo(text, rule, err_text, lang)": the line it prints, or an
\* IndexError when the table of lang has no entries rule .. rule + 2.
\* (None is printed as '(NULL)'; the rule number is rule / 3 + 1.)
TrInfo(point, lang) ==
  IF point.rule < 0 \/ point.rule + 2 >= Len(RulesFor(lang))
  THEN [raised |-> TRUE, line |-> <<>>]
  ELSE [raised |-> FALSE,
        line |-> <<point.text, point.rule \div 3 + 1,
                   [k \in 1..3 |->
                      IF RuleAt(RulesFor(lang), point.rule + k - 1) = None
                      THEN <<"(", "N", "U", "L", "L", ")">>
                      ELSE RuleAt(RulesFor(lang), point.rule + k - 1)],
                   point.err_text>>]

\* The lines of the _trinfo calls of the trace points.
RECURSIVE TraceLines(_, _)
TraceLines(traced, lang) ==
  IF traced = <<>> THEN <<>>
  ELSE <<TrInfo(Head(traced), lang).line>> \o TraceLines(Tail(traced), lang)

\* Some _trinfo call of the trace points raises.
TraceRaises(traced, lang) ==
  \E k \in DOMAIN traced : TrInfo(traced[k], lang).raised

\* "if trace: print('check position ...')" and the _trinfo calls of a
\* turn of the scan loop on the locals lc: what is printed, and an
\* exception of _trinfo ends the call.
Traced(trace, lang, lc, turn) ==
  IF trace
  THEN [printed |-> <<<<"check position", lc.j, From(lc.src, lc.i),
                       Slice(lc.dest, 0, lc.j)>>>>
                      \o TraceLines(turn.traced, lang),
        raised |-> turn.raised \/ TraceRaises(turn.traced, lang)] @@ turn
  ELSE [printed |-> <<>>] @@ turn

\* The history record of a scan iteration.
StepRecord(lc, turn) ==
  [kind |-> turn.kind, pos |-> turn.pos, matches |-> turn.matches,
   printed |-> turn.printed,
   i |-> lc.i, src |-> lc.src, zeta |-> lc.zeta,
   out |-> Slice(lc.dest, 0, lc.j),
   i_after |-> turn.locals.i, src_after |-> turn.locals.src,
   out_after |-> Slice(turn.locals.dest, 0, turn.locals.j)]

\* The effect of a scan iteration of call c that went as turn.
ScanUpdate(c, turn) ==
  /\ frame' = [frame EXCEPT ![c] = turn.locals]
  /\ pc' = [pc EXCEPT ![c] = IF turn.raised THEN "raised" ELSE @]
  /\ steps' = [steps EXCEPT ![c] = Append(@, StepRecord(frame[c], turn))]

\* One iteration of "while i < len(src)".
Scan ==
  \E c \in Calls :
    /\ pc[c] = "scan"
    /\ frame[c].i < Len(frame[c].src)
    /\ ScanUpdate(c, Traced(TraceOf(c), args[c].lang, frame[c],
                             ScanTurn(counters[CountersOf(c)],
                                      RulesFor(args[c].lang), args[c].mode,
                                      frame[c])))
    /\ UNCHANGED <<args, counters, result>>

\* "dest = dest[0:j]; return dest"
Return ==
  \E c \in Calls :
    /\ pc[c] = "scan"
    /\ frame[c].i >= Len(frame[c].src)
    /\ result' = [result EXCEPT ![c] = Slice(frame[c].dest, 0, frame[c].j)]
    /\ pc' = [pc EXCEPT ![c] = "done"]
    /\ UNCHANGED <<args, counters, frame, steps>>

\* Two calls side by side, with any arguments of PairArgs.
PairWords == {<<"G">>, <<"P", "S">>, <<"s", "c", "h">>}

PairArgs == [word : PairWords, mode : Modes, lang : Langs]

InitPair ==
  \E a \in PairArgs, b \in PairArgs : InitWith((1 :> a) @@ (2 :> b), Calls)

\* The same word and language in mode 1 and in mode 2.
InitModes ==
  \E w \in Words, l \in Langs :
    InitWith((1 :> [word |-> w, mode |-> 1, lang |-> l])
               @@ (2 :> [word |-> w, mode |-> 2, lang |-> l]), Calls)

\* One call with whatever a caller may pass.
InitAnyArgs ==
  \E w \in Words, m \in AnyModes, l \in AnyLangs :
    InitWith((1 :> [word |-> w, mode |-> m, lang |-> l]) @@ (2 :> NoArgs),
             {1})

Next == Initialize \/ Enter \/ Scan \/ Return

Spec == Init /\ [][Next]_vars

SpecPair == InitPair /\ [][Next]_vars

SpecModes == InitModes /\ [][Next]_vars

SpecAnyArgs == InitAnyArgs /\ [][Next]_vars

\* The same call with trace=True and without trace.
InitTrace ==
  \E w \in Words, m \in Modes, l \in Langs :
    InitWith((1 :> [word |-> w, mode |-> m, lang |-> l, trace |-> TRUE])
               @@ (2 :> [word |-> w, mode |-> m, lang |-> l]), Calls)

SpecTrace == InitTrace /\ [][Next]_vars

----------------------------------------------------------------------------
(* A call as a function of its arguments                                   *)

\* The scan loop run to its end on the locals lc: ScanOn goes on after a
\* turn of the loop.
RECURSIVE ScanLoop(_, _, _, _)
RECURSIVE ScanOn(_, _, _, _)
ScanOn(ix, rules, mode, turn) ==
  IF turn.raised
  THEN [raised |-> TRUE, value |-> <<>>]
  ELSE ScanLoop(ix, rules, mode, turn.locals)

ScanLoop(ix, rules, mode, lc) ==
  IF lc.i >= Len(lc.src)
  THEN [raised |-> FALSE, value |-> Slice(lc.dest, 0, lc.j)]
  ELSE ScanOn(ix, rules, mode, ScanTurn(ix, rules, mode, lc))

\* _phonet(term, mode, lang) on the Counters ix and the table rules.
PhonetOf(ix, rules, term, mode) ==
  IF term = <<>>
  THEN [raised |-> FALSE, value |-> EmptyResult]
  ELSE ScanLoop(ix, rules, mode, EnterScan(term))

\* phonet(word, mode, lang) run alone, on Counters of its own.
Phonet(word, mode, lang) ==
  PhonetOf(InitializePhonet(EmptyCounters, lang), RulesFor(lang),
           NFKC(word), mode)

\* dest[0:j] of call c: the output written so far.
Written(c) == Slice(frame[c].dest, 0, frame[c].j)

\* Call c is past the empty-word test of _phonet.
Scanned(c) == pc[c] \in {"scan", "done", "raised"}

----------------------------------------------------------------------------
(* Claims                                                                  *)

\* C1: phonet on the empty word returns the empty string, in mode 1 and
\* in mode 2, for lang 'de' and for lang 'none'.
C1_EmptyWordEmptyResult ==
  \A c \in Calls :
    (pc[c] = "done" /\ args[c].word = <<>>) => result[c] = <<>>

C1_Witness ==
  /\ pc[1] = "done"
  /\ args[1] = [word |-> <<>>, mode |-> 2, lang |-> "de"]
  /\ result[1] = <<>>

\* C2: the result of a call depends only on its (word, mode, lang): two
\* calls with the same arguments return the same, and under every
\* interleaving of two calls each call returns what it returns when it
\* runs alone.
C2_ResultDependsOnArgsOnly ==
  /\ \A c \in Calls :
       pc[c] = "done" =>
         Phonet(args[c].word, args[c].mode, args[c].lang)
           = [raised |-> FALSE, value |-> result[c]]
  /\ \A c, d \in Calls :
       (pc[c] = "done" /\ pc[d] = "done" /\ args[c] = args[d])
         => result[c] = result[d]

\* Call 1 scanned the German table after call 2 had built the index of the
\* 'none' table, and both returned.
C2_Witness ==
  /\ pc[1] = "done" /\ pc[2] = "done"
  /\ args[1].lang = "de" /\ args[2].lang = "none"
  /\ args[1].word = <<"s", "c", "h">>
  /\ result[1] # Translate(args[1].word)
  /\ steps[2] # <<>>

\* C3: the output written so far, dest[0:j], never holds two adjacent equal
\* characters, after a commit (of a '^^' rule too) and after a literal
\* pass-through.
C3_NoAdjacentDuplicates ==
  \A c \in Calls :
    Scanned(c) =>
      \A k \in 1..(Len(Written(c)) - 1) : Written(c)[k] # Written(c)[k + 1]

\* The (cursor position, committed rule, consumed length) of each scan
\* iteration of a history; the rule is -1 for a literal pass-through.
StepTriples(h) == [k \in DOMAIN h |-> <<h[k].i, h[k].pos, h[k].matches>>]

\* C4 as stated: every iteration of the scan loop strictly decreases the
\* remaining input length, len(src) - i.
C4_RemainingStrictlyDecreases ==
  \A c \in Calls : \A k \in DOMAIN steps[c] :
    Len(steps[c][k].src_after) - steps[c][k].i_after
      < Len(steps[c][k].src) - steps[c][k].i

\* C4 amended: the remaining input length never grows; it strictly
\* decreases on every iteration but the in-place rewrite of a '<' rule,
\* which leaves the cursor where it is, is applied only when zeta = 0 and
\* is never followed by a second rewrite; so a scan of n characters ends
\* within 2n iterations.
C4_RemainingDecreasesExceptOnMerge ==
  \A c \in Calls :
    /\ Len(steps[c]) <= 2 * Len(NFKC(args[c].word))
    /\ \A k \in DOMAIN steps[c] :
         IF steps[c][k].kind = "merge"
         THEN /\ Len(steps[c][k].src_after) - steps[c][k].i_after
                   <= Len(steps[c][k].src) - steps[c][k].i
              /\ steps[c][k].i_after = steps[c][k].i
              /\ steps[c][k].zeta = 0
              /\ k < Len(steps[c]) => steps[c][k + 1].kind # "merge"
         ELSE Len(steps[c][k].src_after) - steps[c][k].i_after
                < Len(steps[c][k].src) - steps[c][k].i

\* A call returned after a '<' rewrite that left the remaining length as
\* it was.
C4_Witness ==
  /\ pc[1] = "done"
  /\ \E k \in DOMAIN steps[1] :
       /\ steps[1][k].kind = "merge"
       /\ Len(steps[1][k].src_after) = Len(steps[1][k].src)
       /\ k < Len(steps[1])

\* C5: with mode in {1, 2} and lang in {'de', 'none'} the scan never
\* raises, and an iteration in which no rule is accepted leaves src as it
\* is, advances the cursor by exactly one and appends src[i] to the output
\* unless src[i] is the character just written.
C5_NeverRaisesLiteralAdvancesByOne ==
  \A c \in Calls :
    /\ pc[c] # "raised"
    /\ \A k \in DOMAIN steps[c] :
         steps[c][k].kind = "literal" =>
           /\ steps[c][k].i_after = steps[c][k].i + 1
           /\ steps[c][k].src_after = steps[c][k].src
           /\ steps[c][k].out_after =
                IF /\ steps[c][k].out # <<>>
                   /\ steps[c][k].out[Len(steps[c][k].out)]
                        = steps[c][k].src[steps[c][k].i + 1]
                THEN steps[c][k].out
                ELSE Append(steps[c][k].out,
                            steps[c][k].src[steps[c][k].i + 1])

\* A call returned after a literal step that appended its character and a
\* literal step that suppressed a doubled character.
C5_Witness ==
  /\ pc[1] = "done"
  /\ \E k \in DOMAIN steps[1] :
       /\ steps[1][k].kind = "literal"
       /\ steps[1][k].out_after = steps[1][k].out
  /\ \E k \in DOMAIN steps[1] :
       /\ steps[1][k].kind = "literal"
       /\ Len(steps[1][k].out_after) = Len(steps[1][k].out) + 1

\* C6: a call whose mode is not 1 or 2, or whose lang is not 'de' or
\* 'none', is rejected before any scanning: it never enters the scan loop
\* and never returns a transcription.
C6_InvalidArgumentsRejected ==
  \A c \in Calls :
    (args[c].mode \notin Modes \/ args[c].lang \notin Langs)
      => (pc[c] \notin {"scan", "done"} /\ steps[c] = <<>>)

\* C7 as stated: for every word the (cursor, rule, consumed length) steps
\* of the scan are the same in mode 1 and in mode 2.
C7_SameStepsInBothModes ==
  (pc[1] = "done" /\ pc[2] = "done")
    => StepTriples(steps[1]) = StepTriples(steps[2])

\* Every rule of the table has both replacements and none is a '<' rule.
ModeBlind(rules) ==
  \A p \in 0..(Len(rules) - 3) :
    (p % 3 = 0 /\ RuleAt(rules, p) # None) =>
      /\ RuleAt(rules, p + 1) # None
      /\ RuleAt(rules, p + 2) # None
      /\ ~HasAfterFirst(<<"<">>, RuleAt(rules, p))

ModeBlindNoLang == ModeBlind(phonet_rules_no_lang)
ModeBlindGerman == ModeBlind(phonet_rules_german)

\* C7 amended: the steps of the scan are the same in mode 1 and in mode 2
\* for a table in which every rule has both replacements and no rule is a
\* '<' rule (the 'none' table).  Elsewhere the mode also decides which
\* rules are candidates and what a '<' rule writes into src.
C7_SameStepsWhenTableModeBlind ==
  (/\ pc[1] = "done" /\ pc[2] = "done"
   /\ IF args[1].lang = "none" THEN ModeBlindNoLang ELSE ModeBlindGerman)
    => StepTriples(steps[1]) = StepTriples(steps[2])

\* Both modes returned on the 'none' table after committing a rule.
C7_Witness ==
  /\ pc[1] = "done" /\ pc[2] = "done"
  /\ args[1].lang = "none" /\ ModeBlindNoLang /\ ~ModeBlindGerman
  /\ \E k \in DOMAIN steps[1] : steps[1][k].pos >= 0
  /\ \E k \in DOMAIN steps[2] : steps[2][k].pos >= 0

\* The table in which an absent replacement is taken from the other mode.
Filled(rules) ==
  [p \in 1..Len(rules) |->
     IF rules[p] # None THEN rules[p]
     ELSE IF (p - 1) % 3 = 1 /\ rules[p - 1] # None THEN rules[p + 1]
     ELSE IF (p - 1) % 3 = 2 /\ rules[p - 2] # None THEN rules[p - 1]
     ELSE None]

FilledNoLang == Filled(phonet_rules_no_lang)
FilledGerman == Filled(phonet_rules_german)

\* C8 as stated: a rule whose replacement for the active mode is None
\* behaves as if it had the other mode's replacement; the call returns
\* what it returns on the table with every absent replacement filled in
\* from the other column.
C8_AbsentColumnFallsBack ==
  \A c \in Calls :
    pc[c] = "done" =>
      PhonetOf(counters[CountersOf(c)],
               IF args[c].lang = "none" THEN FilledNoLang ELSE FilledGerman,
               NFKC(args[c].word), args[c].mode)
        = [raised |-> FALSE, value |-> result[c]]

\* C8 amended: a rule whose replacement for the active mode is None is
\* never committed in that mode; the candidate loop skips it.
C8_AbsentColumnSkipsRule ==
  \A c \in Calls : \A k \in DOMAIN steps[c] :
    steps[c][k].pos >= 0 =>
      Replacement(RulesFor(args[c].lang), steps[c][k].pos, args[c].mode)
        # None

\* 'M' in mode 1: rule 'M' (position 1707) matches and has no mode-1
\* replacement; no rule was committed and the letter passed literally.
C8_Witness ==
  /\ pc[1] = "done"
  /\ args[1] = [word |-> <<"M">>, mode |-> 1, lang |-> "de"]
  /\ MatchRule(phonet_rules_german, 1707, <<"M">>, 0).accepted
  /\ RuleAt(phonet_rules_german, 1707 + 1) = None
  /\ RuleAt(phonet_rules_german, 1707 + 2) = <<"N">>
  /\ StepTriples(steps[1]) = <<<<0, -1, 1>>>>
  /\ result[1] = <<"M">>

\* Every rule of the table has the same replacement in both modes.
EqualColumns(rules) ==
  \A p \in 0..(Len(rules) - 3) :
    p % 3 = 0 => RuleAt(rules, p + 1) = RuleAt(rules, p + 2)

EqualColumnsNoLang == EqualColumns(phonet_rules_no_lang)
EqualColumnsGerman == EqualColumns(phonet_rules_german)

\* C9: when every rule of the active table has equal mode-1 and mode-2
\* replacements (the 'none' table), mode 1 and mode 2 return the same.
C9_EqualColumnsEqualOutputs ==
  (/\ pc[1] = "done" /\ pc[2] = "done"
   /\ IF args[1].lang = "none" THEN EqualColumnsNoLang
      ELSE EqualColumnsGerman)
    => result[1] = result[2]

\* Both modes returned 'AE' for the 'none' table's rule for A-umlaut.
C9_Witness ==
  /\ pc[1] = "done" /\ pc[2] = "done"
  /\ args[1].lang = "none" /\ EqualColumnsNoLang /\ ~EqualColumnsGerman
  /\ args[1].word = <<"Auml">>
  /\ result[1] = <<"A", "E">> /\ result[2] = <<"A", "E">>

\* The length of the longest replacement of a table.
Longest(rules) ==
  CHOOSE m \in 0..Len(rules) :
    /\ \A p \in 0..(Len(rules) - 1) :
         (p % 3 # 0 /\ RuleAt(rules, p) # None) => Len(RuleAt(rules, p)) <= m
    /\ \E p \in 0..(Len(rules) - 1) :
         p % 3 # 0 /\ RuleAt(rules, p) # None /\ Len(RuleAt(rules, p)) = m

LongestNoLang == Longest(phonet_rules_no_lang)
LongestGerman == Longest(phonet_rules_german)

----------------------------------------------------------------------------
(* Index construction and transcription as functions of the rule table     *)

\* The table rules with the pattern of the rule at position p set to ''
\* (p = -1: the table as it is).
EmptiedAt(rules, p) ==
  IF p < 0 THEN rules ELSE [rules EXCEPT ![p + 1] = <<>>]

\* The positions of the patterns of the rules of a table.
PatternPositions(rules) ==
  {p \in 0..(Len(rules) - 3) : p % 3 = 0 /\ RuleAt(rules, p) # None}

\* The tables of the runs on an edited 'none' table.
Tables ==
  {EmptiedAt(phonet_rules_no_lang, p) :
     p \in {-1} \cup PatternPositions(phonet_rules_no_lang)}

\* Words that reach the rules of the 'none' table.
TableWords ==
  {<<"M", "C">>, <<"M", "'">>, <<"M", "x">>, <<"Auml">>, <<"szlig">>,
   <<"O", "'">>, <<"acute", "a">>,
   <<"v", "a", "n", " ", "d", "e", "n", " ">>}

\* One call of phonet(word, mode, 'none') whose _phonet_rules is a table
\* of Tables.
InitTables ==
  \E t \in Tables, w \in TableWords, m \in Modes :
    /\ args = (1 :> [word |-> w, mode |-> m, lang |-> "none"])
                @@ (2 :> NoArgs)
    /\ pc = (1 :> "start") @@ (2 :> "idle")
    /\ counters = [c \in Calls |-> EmptyCounters]
    /\ frame = [c \in Calls |-> [rules |-> t] @@ NoFrame]
    /\ result = [c \in Calls |-> <<>>]
    /\ steps = [c \in Calls |-> <<>>]

\* "_initialize_phonet(lang)" on the table of the call.
BuildIndex ==
  \E c \in Calls :
    /\ pc[c] = "start"
    /\ counters' = [counters EXCEPT
                      ![c] = InitializeCounters(@, frame[c].rules)]
    /\ pc' = [pc EXCEPT ![c] = "enter"]
    /\ UNCHANGED <<args, frame, result, steps>>

\* What call c makes of the outcome of _phonet.
Outcome(c, out) ==
  /\ result' = [result EXCEPT ![c] = out.value]
  /\ pc' = [pc EXCEPT ![c] = IF out.raised THEN "raised" ELSE "done"]

\* "return _phonet(word, mode, lang, trace)" on the table of the call.
Transcribe ==
  \E c \in Calls :
    /\ pc[c] = "enter"
    /\ Outcome(c, PhonetOf(counters[c], frame[c].rules,
                           NFKC(args[c].word), args[c].mode))
    /\ UNCHANGED <<args, counters, frame, steps>>

NextTables == BuildIndex \/ Transcribe

SpecTables == InitTables /\ [][NextTables]_vars

\* The table has a rule whose pattern is the empty str.
HasEmptyPattern(rules) ==
  \E p \in 0..(Len(rules) - 3) : p % 3 = 0 /\ RuleAt(rules, p) = <<>>

C12_TraceDoesNotChangeResult ==
  /\ pc[1] # "raised" /\ pc[2] # "raised"
  /\ (pc[1] = "done" /\ pc[2] = "done") => result[1] = result[2]
  /\ (pc[1] = "done" /\ pc[2] = "done")
       => StepTriples(steps[1]) = StepTriples(steps[2])

\* Both calls returned; the traced one printed an applied rule and a
\* candidate displaced by a continuation rule; the other printed nothing.
C12_Witness ==
  /\ pc[1] = "done" /\ pc[2] = "done"
  /\ TraceOf(1) /\ ~TraceOf(2)
  /\ result[1] # <<>>
  /\ \E k \in DOMAIN steps[1] : \E n \in DOMAIN steps[1][k].printed :
       /\ steps[1][k].printed[n][1] = "Rule no."
  /\ \E k \in DOMAIN steps[1] : \E n \in DOMAIN steps[1][k].printed :
       /\ steps[1][k].printed[n][1] = "> not used because of continuation"
  /\ \A k \in DOMAIN steps[2] : steps[2][k].printed = <<>>

\* C13: with the German table CHRISTOPHER (in any case) is transcribed to
\* KRISTOFA in mode 1 and to KRIZTUFA in mode 2.
C13_ChristopherGerman ==
  \A c \in Calls :
    (/\ pc[c] = "done" /\ args[c].lang = "de"
     /\ Translate(args[c].word)
          = <<"C", "H", "R", "I", "S", "T", "O", "P", "H", "E", "R">>)
      => result[c] = IF args[c].mode = 1
                     THEN <<"K", "R", "I", "S", "T", "O", "F", "A">>
                     ELSE <<"K", "R", "I", "Z", "T", "U", "F", "A">>

\* Both modes returned for the doctest word 'Christopher', mode 2 with
\* KRIZTUFA.
C13_Witness ==
  /\ pc[1] = "done" /\ pc[2] = "done"
  /\ args[1] = [word |-> <<"C", "h", "r", "i", "s", "t", "o", "p", "h", "e",
                           "r">>, mode |-> 1, lang |-> "de"]
  /\ args[2].mode = 2
  /\ result[2] = <<"K", "R", "I", "Z", "T", "U", "F", "A">>
  /\ result[1] # result[2]

\* C14: with the German table SMITH is transcribed to SMIT in mode 1 and
\* ZNIT in mode 2, SCHMIDT to SHMIT in mode 1 and ZNIT in mode 2: the two
\* words get the same mode-2 code.
C14_SmithSchmidtGerman ==
  \A c \in Calls :
    (pc[c] = "done" /\ args[c].lang = "de") =>
      /\ Translate(args[c].word) = <<"S", "M", "I", "T", "H">> =>
           result[c] = IF args[c].mode = 1 THEN <<"S", "M", "I", "T">>
                       ELSE <<"Z", "N", "I", "T">>
      /\ Translate(args[c].word) = <<"S", "C", "H", "M", "I", "D", "T">> =>
           result[c] = IF args[c].mode = 1 THEN <<"S", "H", "M", "I", "T">>
                       ELSE <<"Z", "N", "I", "T">>

\* SCHMIDT returned in mode 2 with the code of SMITH, ZNIT, and in mode 1
\* with SHMIT.
C14_Witness ==
  /\ pc[1] = "done" /\ pc[2] = "done"
  /\ args[1] = [word |-> <<"S", "C", "H", "M", "I", "D", "T">>, mode |-> 1,
                lang |-> "de"]
  /\ args[2].mode = 2
  /\ result[1] = <<"S", "H", "M", "I", "T">>
  /\ result[2] = <<"Z", "N", "I", "T">>
  /\ result[2] = Phonet(<<"S", "M", "I", "T", "H">>, 2, "de").value

\* s with every run of identical adjacent characters reduced to one.
RECURSIVE Collapse(_)
Collapse(s) ==
  IF Len(s) <= 1 THEN s
  ELSE IF s[1] = s[2] THEN Collapse(Tail(s))
  ELSE <<s[1]>> \o Collapse(Tail(s))

\* The word has only the letters A-Z, in either case.
LettersOnly(word) ==
  \A k \in DOMAIN word :
    word[k] \in Range(UpperLetters) \cup Range(LowerLetters)

\* C15: with lang='none' a word of the letters A-Z (in any case) that does
\* not contain MC is returned upper-cased, with every run of identical
\* adjacent letters collapsed to one letter, and otherwise unchanged.
C15_NoLangUppercasesAndCollapses ==
  \A c \in Calls :
    (/\ pc[c] = "done" /\ args[c].lang = "none"
     /\ LettersOnly(args[c].word)
     /\ ~IsSubstring(<<"M", "C">>, Translate(args[c].word)))
      => result[c] = Collapse(Translate(args[c].word))

\* 'Niall' returned as NIAL with lang='none'.
C15_Witness ==
  /\ pc[1] = "done" /\ args[1].lang = "none"
  /\ args[1].word = <<"N", "i", "a", "l", "l">>
  /\ LettersOnly(args[1].word)
  /\ result[1] = <<"N", "I", "A", "L">>

----------------------------------------------------------------------------
(* clustering.bwt and clustering.bwt_decode                                *)

\* The characters of the words and terminators, in code point order:
\* "NUL" is '\0', the default terminator.
BwtChars == <<"NUL", "a", "b", "c">>

\* ord(c) up to the order: str comparison goes by code point.
CodePoint(c) == CHOOSE n \in DOMAIN BwtChars : BwtChars[n] = c

\* a < b for str a, b.
RECURSIVE LexLess(_, _)
LexLess(a, b) ==
  IF b = <<>> THEN FALSE
  ELSE IF a = <<>> THEN TRUE
  ELSE IF a[1] # b[1] THEN CodePoint(a[1]) < CodePoint(b[1])
  ELSE LexLess(Tail(a), Tail(b))

\* A variant of sorted that leaves the list as it is.
Unsorted(list) == list

\* sorted(list) for a list of str.
RECURSIVE Sorted(_)
Sorted(list) ==
  IF list = <<>> THEN <<>>
  ELSE LET rest == Sorted(Tail(list))
           before == SelectSeq(rest, LAMBDA w : LexLess(w, Head(list)))
           after == SelectSeq(rest, LAMBDA w : ~LexLess(w, Head(list)))
       IN  before \o <<Head(list)>> \o after

\* s.rstrip(t) for a character t.
RECURSIVE RStrip(_, _)
RStrip(s, t) ==
  IF s # <<>> /\ s[Len(s)] = t THEN RStrip(SubSeq(s, 1, Len(s) - 1), t)
  ELSE s

\* bwt(word, terminator): the last characters of the sorted rotations of
\* word + terminator; the assert fails when the terminator is in word.
bwt(word, terminator) ==
  IF word = <<>> THEN [raised |-> FALSE, value |-> <<terminator>>]
  ELSE IF terminator \in Range(word) THEN [raised |-> TRUE, value |-> <<>>]
  ELSE [raised |-> FALSE,
        value |->
          LET text == Append(word, terminator)
              wordlist == Sorted([k \in 1..Len(text) |->
                                    From(text, k - 1)
                                      \o Slice(text, 0, k - 1)])
          IN  [k \in 1..Len(text) |-> wordlist[k][Len(text)]]]

\* n rounds of "wordlist = sorted([code[i] + wordlist[i] for i in ...])".
RECURSIVE DecodeRounds(_, _, _)
DecodeRounds(code, wordlist, n) ==
  IF n = 0 THEN wordlist
  ELSE DecodeRounds(code,
                    Sorted([k \in 1..Len(code) |->
                              <<code[k]>> \o wordlist[k]]),
                    n - 1)

\* bwt_decode(code, terminator): the row of the rebuilt table that ends
\* with the terminator, without it; the assert fails when the terminator
\* is not in code.
bwt_decode(code, terminator) ==
  IF code = <<>> THEN [raised |-> FALSE, value |-> <<>>]
  ELSE IF terminator \notin Range(code) THEN [raised |-> TRUE, value |-> <<>>]
  ELSE [raised |-> FALSE,
        value |->
          RStrip(
            Head(SelectSeq(
                   DecodeRounds(code, [k \in 1..Len(code) |-> <<>>],
                                Len(code)),
                   LAMBDA w : w[Len(w)] = terminator)),
            terminator)]

\* The longest word that is transformed.
BwtMaxLen == 4

BwtWords == UNION {[1..n -> {"a", "b", "c"}] : n \in 0..BwtMaxLen}

Terminators == {"NUL", "b"}

\* A call bwt(word, terminator); call 2 will decode what it returns.
InitBwt ==
  \E w \in BwtWords, t \in Terminators :
    /\ args = (1 :> [word |-> w, terminator |-> t])
                @@ (2 :> [code |-> <<>>, terminator |-> t])
    /\ pc = (1 :> "start") @@ (2 :> "idle")
    /\ counters = [c \in Calls |-> EmptyCounters]
    /\ frame = [c \in Calls |-> NoFrame]
    /\ result = [c \in Calls |-> <<>>]
    /\ steps = [c \in Calls |-> <<>>]

\* Call 1: bwt(word, terminator); its code is passed to call 2.
Encode ==
  /\ pc[1] = "start"
  /\ "word" \in DOMAIN args[1]
  /\ LET out == bwt(args[1].word, args[1].terminator) IN
       /\ result' = [result EXCEPT ![1] = out.value]
       /\ pc' = IF out.raised THEN [pc EXCEPT ![1] = "raised"]
                ELSE (1 :> "done") @@ (2 :> "start")
       /\ args' = IF out.raised THEN args
                  ELSE [args EXCEPT ![2].code = out.value]
  /\ UNCHANGED <<counters, frame, steps>>

\* Call 2: bwt_decode(code, terminator).
Decode ==
  /\ pc[2] = "start"
  /\ "code" \in DOMAIN args[2]
  /\ LET out == bwt_decode(args[2].code, args[2].terminator) IN
       /\ result' = [result EXCEPT ![2] = out.value]
       /\ pc' = [pc EXCEPT ![2] = IF out.raised THEN "raised" ELSE "done"]
  /\ UNCHANGED <<args, counters, frame, steps>>

NextBwt == Encode \/ Decode

SpecBwt == InitBwt /\ [][NextBwt]_vars

\* C16: bwt_decode reverses bwt: for a word that does not contain the
\* terminator, bwt returns a code, bwt_decode of that code returns the
\* word; for the empty word the code is just the terminator.
C16_DecodeReversesBwt ==
  ("word" \in DOMAIN args[1] /\ args[1].terminator \notin Range(args[1].word))
    => /\ pc[1] # "raised" /\ pc[2] # "raised"
       /\ (pc[1] = "done" /\ args[1].word = <<>>)
            => result[1] = <<args[1].terminator>>
       /\ pc[1] = "done" => args[2].code = result[1]
       /\ pc[2] = "done" => result[2] = args[1].word

\* 'acca' with the terminator 'b' in the middle of the order went through
\* bwt and back.
C16_Witness ==
  /\ "word" \in DOMAIN args[1]
  /\ pc[2] = "done"
  /\ args[1].word = <<"a", "c", "c", "a">> /\ args[1].terminator = "b"
  /\ result[1] # Append(args[1].word, "b")
  /\ Len(result[1]) = 5
  /\ result[2] = <<"a", "c", "c", "a">>

----------------------------------------------------------------------------
(* tokenizer.NLTKTokenizer                                                 *)

\* "self.nltk_tokenizer.tokenize(string)" for an NLTK tokenizer that
\* splits at blanks: cur is the token being read.
RECURSIVE NltkTokenize(_, _)
NltkTokenize(string, cur) ==
  IF string = <<>> THEN (IF cur = <<>> THEN <<>> ELSE <<cur>>)
  ELSE IF Head(string) = " "
  THEN (IF cur = <<>> THEN <<>> ELSE <<cur>>)
         \o NltkTokenize(Tail(string), <<>>)
  ELSE NltkTokenize(Tail(string), Append(cur, Head(string)))

\* collections.Counter(list): each element with its number of occurrences.
CounterOf(list) ==
  [t \in Range(list) |-> Cardinality({k \in DOMAIN list : list[k] = t})]

\* _Tokenizer.tokenize(self, string=None): the attributes after the call.
BaseTokenize(self, string) ==
  IF string # None
  THEN [self EXCEPT !.string = string, !.ordered_list = <<string>>,
                    !.tokens = CounterOf(<<string>>)]
  ELSE [self EXCEPT !.tokens = CounterOf(self.ordered_list)]

\* NLTKTokenizer.tokenize(self, string): _string and _ordered_tokens are
\* set, then the base class method is called without a string.
NLTKTokenize(self, string) ==
  BaseTokenize([self EXCEPT !.string = string,
                            !.ordered_tokens = NltkTokenize(string, <<>>)],
               None)

\* _Tokenizer.get_list(self)
get_list(self) == self.ordered_list

\* _Tokenizer.get_counter(self)
get_counter(self) ==
  IF self.scaler = None THEN self.tokens
  ELSE [t \in DOMAIN self.tokens |-> 1]

\* The number of tokenize calls on one tokenizer.
MaxTokenizeCalls == 2

\* NLTKTokenizer(nltk_tokenizer=T): the attributes set by the two __init__
\* methods (_ordered_tokens does not exist before the first tokenize; it
\* is modelled as empty).  steps[1] are the strings tokenized so far.
InitTok ==
  /\ frame = (1 :> [scaler |-> None, tokens |-> <<>>, string |-> <<>>,
                    ordered_list |-> <<>>, ordered_tokens |-> <<>>])
               @@ (2 :> NoFrame)
  /\ args = [c \in Calls |-> NoArgs]
  /\ pc = (1 :> "new") @@ (2 :> "idle")
  /\ counters = [c \in Calls |-> EmptyCounters]
  /\ result = [c \in Calls |-> <<>>]
  /\ steps = [c \in Calls |-> <<>>]

\* tokenize(string) on the tokenizer.
Tokenize ==
  \E string \in UNION {[1..n -> {"a", "b", " "}] : n \in 0..3} :
    /\ pc[1] \in {"new", "tokenized", "listed", "counted"}
    /\ Len(steps[1]) < MaxTokenizeCalls
    /\ frame' = [frame EXCEPT ![1] = NLTKTokenize(@, string)]
    /\ steps' = [steps EXCEPT ![1] = Append(@, string)]
    /\ pc' = [pc EXCEPT ![1] = "tokenized"]
    /\ UNCHANGED <<args, counters, result>>

\* get_list() on the tokenizer; result[1] is what it returned.
GetList ==
  /\ pc[1] \in {"tokenized", "counted"}
  /\ result' = [result EXCEPT ![1] = get_list(frame[1])]
  /\ pc' = [pc EXCEPT ![1] = "listed"]
  /\ UNCHANGED <<args, counters, frame, steps>>

\* get_counter() on the tokenizer; result[2] is what it returned.
GetCounter ==
  /\ pc[1] \in {"tokenized", "listed"}
  /\ result' = [result EXCEPT ![2] = get_counter(frame[1])]
  /\ pc' = [pc EXCEPT ![1] = "counted"]
  /\ UNCHANGED <<args, counters, frame, steps>>

NextTok == Tokenize \/ GetList \/ GetCounter

SpecTok == InitTok /\ [][NextTok]_vars

\* C17: after tokenize(s) the tokenizer holds the tokens T.tokenize(s) of
\* the last string tokenized: get_list() returns them in order and
\* get_counter() maps each token to its number of occurrences.
C17_HoldsTokensOfLastString ==
  /\ pc[1] = "listed" =>
       result[1] = NltkTokenize(steps[1][Len(steps[1])], <<>>)
  /\ pc[1] = "counted" =>
       result[2] = CounterOf(NltkTokenize(steps[1][Len(steps[1])], <<>>))

----------------------------------------------------------------------------
(* phonet: the priority of a rule in the continuation lookahead            *)

\* The pattern that a line of _trinfo shows.
PatternOf(line) == line[3][1]

\* The line of the candidate that was being checked when line n of lines
\* was printed.
CheckedAt(lines, n) ==
  lines[CHOOSE m \in 2..n :
          /\ lines[m][1] = "> rule no."
          /\ lines[m][4] = "is being checked"
          /\ \A q \in (m + 1)..n :
               ~(lines[q][1] = "> rule no."
                 /\ lines[q][4] = "is being checked")]

\* The <<candidate pattern, continuation pattern>> of the lines that read
\* text ... err_text in the trace lines of one scan iteration.
PairsOf(lines, text, err_text) ==
  {<<PatternOf(CheckedAt(lines, n)), PatternOf(lines[n])>> :
     n \in {m \in 2..Len(lines) :
              lines[m][1] = text /\ lines[m][4] = err_text}}

\* The pairs of the history h where the continuation rule matched further
\* but was "not used (priority)".
TurnedDown(h) ==
  UNION {PairsOf(h[k].printed, "> > continuation rule no.",
                 "not used (priority)") : k \in DOMAIN h}

\* The pairs of the history h where the candidate was "not used because of
\* continuation".
Displaced(h) ==
  UNION {PairsOf(h[k].printed, "> not used because of continuation", "") :
           k \in DOMAIN h}

\* The priority digits of a pattern.
PriorityDigits(pattern) == SelectSeq(pattern, IsDigit)

\* The priority of a pattern when a pattern without a digit counts as 5.
PriorityOf(pattern) ==
  IF PriorityDigits(pattern) = <<>> THEN 5
  ELSE DigitValue(PriorityDigits(pattern)[1])

\* C18 (as stated): a rule without a priority digit has the maximal
\* priority.  As a continuation rule it is never turned down for its
\* priority, and as a candidate it is displaced only by a continuation
\* rule that would displace every digit-bearing candidate too: one without
\* a digit or with the digit 9.
C18_DigitlessRuleHasMaximalPriority ==
  /\ \A p \in TurnedDown(steps[1]) : PriorityDigits(p[2]) # <<>>
  /\ \A p \in Displaced(steps[1]) :
       PriorityDigits(p[1]) = <<>> =>
         PriorityDigits(p[2]) \in {<<>>, <<"9">>}

\* C18 (amended): a rule without a priority digit has the priority 5.  A
\* continuation rule that matches further is turned down exactly when its
\* priority, the digit of its pattern or 5 without one, is below the
\* candidate's, and it displaces the candidate otherwise; so a rule
\* without a digit is harder to override than the digits 0-4 and easier to
\* override than the digits 6-9.
C18_DigitlessRuleHasPriorityFive ==
  /\ \A p \in TurnedDown(steps[1]) : PriorityOf(p[2]) < PriorityOf(p[1])
  /\ \A p \in Displaced(steps[1]) : PriorityOf(p[2]) >= PriorityOf(p[1])

\* A call is done in which a continuation rule without a digit was turned
\* down for its priority by a candidate with a digit above 5.
C18_Witness ==
  /\ pc[1] = "done"
  /\ \E p \in TurnedDown(steps[1]) :
       PriorityDigits(p[2]) = <<>> /\ PriorityOf(p[1]) > 5

----------------------------------------------------------------------------
(* phonet: when the lookahead displaces a candidate                        *)

\* The rule positions from start to end.
Positions(rules, start, end) ==
  {start + 3 * k :
     k \in 0..((Min(end, Len(rules) - 1) - start) \div 3)}

\* The rule positions of the ranges rg.
RangePositions(rules, rg) ==
  (IF rg.start1 >= 0 THEN Positions(rules, rg.start1, rg.end1) ELSE {})
    \cup
  (IF rg.start2 > 0 THEN Positions(rules, rg.start2, rg.end2) ELSE {})

\* The least of the positions ps, or Len(rules) when there is none.
FirstOf(rules, ps) ==
  IF ps = {} THEN Len(rules) ELSE CHOOSE q \in ps : \A r \in ps : q <= r

\* The positions of ps below stop.
Below(ps, stop) == {p \in ps : p < stop}

\* The positions of the ranges rg in the order of the table, as far as the
\* rules lead with char.
DispatchOrder(rules, rg, char) ==
  Below(RangePositions(rules, rg),
        FirstOf(rules, {q \in RangePositions(rules, rg) :
                          ~LeadsWith(rules, q, char)}))

\* The rule at pos0 is a continuation of the candidate match m at i: it is
\* available in the mode, matches further than m and has a priority of at
\* least m's.
Continues(rules, mode, src, i, m, pos0) ==
  /\ ~Unavailable(rules, pos0, mode)
  /\ MatchContinuation(rules, pos0, src, i, m.matches).accepted
  /\ MatchContinuation(rules, pos0, src, i, m.matches).matches0 > m.matches
  /\ MatchContinuation(rules, pos0, src, i, m.matches).priority0
       >= m.priority

\* The one lookahead dispatch of the candidate match m at i, on the last
\* matched character and the character after it, holds a continuation of
\* m.  (The dispatch is made for a match of more than one character that
\* does not end the input and whose pattern has no '-'.)
Overridden(ix, rules, mode, src, i, m) ==
  /\ m.matches > 1
  /\ CharAt(src, i + m.matches) # ""
  /\ m.priority0 # 45
  /\ \E pos0 \in DispatchOrder(rules,
                   Dispatch(ix, CharAt(src, i + m.matches - 1),
                            CharAt(src, i + m.matches)),
                   CharAt(src, i + m.matches - 1)) :
       Continues(rules, mode, src, i, m, pos0)

\* The candidate at pos matches at i.
Matching(rules, mode, src, i, pos) ==
  ~Unavailable(rules, pos, mode) /\ MatchRule(rules, pos, src, i).accepted

\* The candidate loop that ended as cl went past the candidate at pos.
Rejected(cl, pos) == cl.status = "none" \/ pos < cl.pos

\* What C19 says of the candidate loop on the locals lc.
RejectedWhenOverridden(ix, rules, mode, lc, cl) ==
  /\ cl.status \in {"commit", "none"}
  /\ cl.status = "commit" =>
       /\ cl.pos \in DispatchOrder(rules,
            Dispatch(ix, CharAt(lc.src, lc.i), CharAt(lc.src, lc.i + 1)),
            CharAt(lc.src, lc.i))
       /\ Matching(rules, mode, lc.src, lc.i, cl.pos)
  /\ \A p \in DispatchOrder(rules,
                Dispatch(ix, CharAt(lc.src, lc.i), CharAt(lc.src, lc.i + 1)),
                CharAt(lc.src, lc.i)) :
       (Matching(rules, mode, lc.src, lc.i, p)
          /\ (cl.status = "commit" => p <= cl.pos))
       => (Rejected(cl, p)
             <=> Overridden(ix, rules, mode, lc.src, lc.i,
                            MatchRule(rules, p, lc.src, lc.i)))

\* C19: a matching candidate is rejected, and the next candidate of the
\* dispatch order tried, exactly when the one lookahead dispatch finds a
\* continuation rule that matches further into the input than the
\* candidate and whose priority is at least the candidate's; the verdict
\* depends on the matches of that one dispatch only (depth one).
C19_RejectedExactlyWhenOverridden ==
  (pc[1] = "scan" /\ frame[1].i < Len(frame[1].src)) =>
    RejectedWhenOverridden(counters[CountersOf(1)], RulesFor(args[1].lang),
      args[1].mode, frame[1],
      ChooseRule(counters[CountersOf(1)], RulesFor(args[1].lang),
                 args[1].mode, frame[1].src, frame[1].i))

\* A scan is at a position where a matching candidate is overridden and a
\* later candidate is committed.
C19_Witness ==
  /\ pc[1] = "scan"
  /\ frame[1].i < Len(frame[1].src)
  /\ ChooseRule(counters[CountersOf(1)], RulesFor(args[1].lang),
                args[1].mode, frame[1].src, frame[1].i).status = "commit"
  /\ \E p \in RangePositions(RulesFor(args[1].lang),
                Dispatch(counters[CountersOf(1)],
                         CharAt(frame[1].src, frame[1].i),
                         CharAt(frame[1].src, frame[1].i + 1))) :
       /\ p < ChooseRule(counters[CountersOf(1)], RulesFor(args[1].lang),
                         args[1].mode, frame[1].src, frame[1].i).pos
       /\ Matching(RulesFor(args[1].lang), args[1].mode, frame[1].src,
                   frame[1].i, p)
       /\ Overridden(counters[CountersOf(1)], RulesFor(args[1].lang),
                     args[1].mode, frame[1].src, frame[1].i,
                     MatchRule(RulesFor(args[1].lang), p, frame[1].src,
                               frame[1].i))

----------------------------------------------------------------------------
(* phonet: the index against a scan of the whole table                     *)

\* The rule at pos leads with char, matches at i and is not displaced by
\* the lookahead.
Commits(ix, rules, mode, src, i, pos) ==
  /\ RuleAt(rules, pos) # None
  /\ RuleAt(rules, pos)[1] = CharAt(src, i)
  /\ Matching(rules, mode, src, i, pos)
  /\ Lookahead(ix, rules, mode, src, i,
               MatchRule(rules, pos, src, i)).verdict = "commit"

\* The rule that a scan of the whole table in the order of the table
\* commits at i: the position of the first rule that leads with src[i],
\* matches at i and survives the lookahead, or Len(rules) without one.
LinearChoice(ix, rules, mode, src, i) ==
  FirstOf(rules, {p \in Positions(rules, 0, Len(rules) - 1) :
                    Commits(ix, rules, mode, src, i, p)})

\* The candidate loop ended as cl on the rule at pos, or on none when pos
\* is Len(rules).
SameChoice(rules, cl, pos) ==
  \/ cl.status = "commit" /\ cl.pos = pos
  \/ cl.status = "none" /\ pos = Len(rules)

\* One call on every pair of letters A-Z, which meets every range of the
\* index, and on a word whose ranges are tried in the swapped order.
InitLetters ==
  \E w \in {<<a, b>> : a \in Range(UpperLetters), b \in Range(UpperLetters)}
             \cup {<<"X", "T", "S">>, <<"A", "X", "T">>},
     m \in Modes, l \in Langs :
    InitWith((1 :> [word |-> w, mode |-> m, lang |-> l]) @@ (2 :> NoArgs),
             {1})

SpecLetters == InitLetters /\ [][Next]_vars

\* C20: at every cursor position that holds a letter A-Z the rule chosen
\* through the index (the range of the letter and its follower, the range
\* of the letter alone, their swap and their merge) is the rule that a
\* scan of the whole table in table order commits: the first rule with
\* that leading letter that matches at the cursor and survives the
\* lookahead.
C20_IndexChoosesAsLinearScan ==
  (/\ pc[1] = "scan"
   /\ frame[1].i < Len(frame[1].src)
   /\ CharAt(frame[1].src, frame[1].i) \in Range(UpperLetters)) =>
    SameChoice(RulesFor(args[1].lang),
      ChooseRule(counters[CountersOf(1)], RulesFor(args[1].lang),
                 args[1].mode, frame[1].src, frame[1].i),
      LinearChoice(counters[CountersOf(1)], RulesFor(args[1].lang),
                   args[1].mode, frame[1].src, frame[1].i))

\* A scan is at a letter whose range with its follower starts after its
\* range alone: the rule that is committed lies in the range of the letter
\* alone, which is tried first, and a rule of the range with the follower
\* would commit as well.
C20_Witness ==
  /\ pc[1] = "scan"
  /\ frame[1].i < Len(frame[1].src)
  /\ CharAt(frame[1].src, frame[1].i) \in Range(UpperLetters)
  /\ Dispatch(counters[CountersOf(1)], CharAt(frame[1].src, frame[1].i),
              CharAt(frame[1].src, frame[1].i + 1)).start2 > 0
  /\ Dispatch(counters[CountersOf(1)], CharAt(frame[1].src, frame[1].i),
              CharAt(frame[1].src, frame[1].i + 1)).start1
       = Get2(counters[CountersOf(1)].phonet_hash_1,
              Get(counters[CountersOf(1)].alpha_pos,
                  CharAt(frame[1].src, frame[1].i)) - 2, 0)
  /\ ChooseRule(counters[CountersOf(1)], RulesFor(args[1].lang),
                args[1].mode, frame[1].src, frame[1].i).status = "commit"
  /\ \E p \in Positions(RulesFor(args[1].lang),
         Dispatch(counters[CountersOf(1)], CharAt(frame[1].src, frame[1].i),
                  CharAt(frame[1].src, frame[1].i + 1)).start2,
         Dispatch(counters[CountersOf(1)], CharAt(frame[1].src, frame[1].i),
                  CharAt(frame[1].src, frame[1].i + 1)).end2) :
       /\ Commits(counters[CountersOf(1)], RulesFor(args[1].lang),
                  args[1].mode, frame[1].src, frame[1].i, p)
       /\ ChooseRule(counters[CountersOf(1)], RulesFor(args[1].lang),
                     args[1].mode, frame[1].src, frame[1].i).pos < p

----------------------------------------------------------------------------
(* phonet: the order in which the candidates of a position are tried       *)

\* The trace point of a candidate that the candidate loop goes on to match.
IsTried(point) ==
  point.text = "> rule no." /\ point.err_text = "is being checked"

\* The rule positions of trace points.
RulesOf(points) == [k \in DOMAIN points |-> points[k].rule]

\* The positions of the candidates that the candidate loop which ended as
\* cl has tried, in the order in which it tried them.
Tried(cl) == RulesOf(SelectSeq(cl.traced, IsTried))

\* The range of the letter c followed by the character n, and the range of
\* the letter c alone.
SpecificRange(ix, c, n) ==
  [start |-> Get2(ix.phonet_hash_1, Get(ix.alpha_pos, c) - 2,
                  Get(ix.alpha_pos, n)),
   end   |-> Get2(ix.phonet_hash_2, Get(ix.alpha_pos, c) - 2,
                  Get(ix.alpha_pos, n))]

WildcardRange(ix, c) ==
  [start |-> Get2(ix.phonet_hash_1, Get(ix.alpha_pos, c) - 2, 0),
   end   |-> Get2(ix.phonet_hash_2, Get(ix.alpha_pos, c) - 2, 0)]

\* In the sequence tried, every candidate outside the positions specific
\* comes after all the positions of specific that hold an available rule.
SpecificBeforeOthers(rules, mode, tried, specific) ==
  \A b \in DOMAIN tried :
    tried[b] \notin specific =>
      \A p \in specific :
        ~Unavailable(rules, p, mode) =>
          \E a \in 1..(b - 1) : tried[a] = p

\* The sequence tried goes up the table and holds exactly the positions of
\* order with an available rule, as far as the loop that ended as cl went.
TriedInTableOrder(rules, mode, tried, order, cl) ==
  /\ \A a \in DOMAIN tried : \A b \in DOMAIN tried :
       a < b => tried[a] < tried[b]
  /\ Range(tried) =
       {p \in order : /\ ~Unavailable(rules, p, mode)
                      /\ (cl.status = "commit" => p <= cl.pos)}

\* The cursor of the call is at a letter A-Z.
AtLetter ==
  /\ pc[1] = "scan"
  /\ frame[1].i < Len(frame[1].src)
  /\ CharAt(frame[1].src, frame[1].i) \in Range(UpperLetters)

\* C21 (as stated): at a letter position all candidates of the range of
\* the letter and its follower are tried before any candidate outside it.
C21_SpecificRangeTriedFirst ==
  (/\ AtLetter
   /\ Get(counters[CountersOf(1)].alpha_pos,
          CharAt(frame[1].src, frame[1].i + 1)) > 0
   /\ SpecificRange(counters[CountersOf(1)],
                    CharAt(frame[1].src, frame[1].i),
                    CharAt(frame[1].src, frame[1].i + 1)).start >= 0) =>
    SpecificBeforeOthers(RulesFor(args[1].lang), args[1].mode,
      Tried(ChooseRule(counters[CountersOf(1)], RulesFor(args[1].lang),
                       args[1].mode, frame[1].src, frame[1].i)),
      Positions(RulesFor(args[1].lang),
        SpecificRange(counters[CountersOf(1)],
                      CharAt(frame[1].src, frame[1].i),
                      CharAt(frame[1].src, frame[1].i + 1)).start,
        SpecificRange(counters[CountersOf(1)],
                      CharAt(frame[1].src, frame[1].i),
                      CharAt(frame[1].src, frame[1].i + 1)).end))

\* C21 (amended): at a letter position the candidates are tried in the
\* order of the table throughout.  Of the two ranges the one that starts
\* earlier in the table is tried first, which is the range of the letter
\* alone when it precedes the range of the letter and its follower, and
\* two ranges that overlap are tried as one; every available rule of the
\* ranges is tried until a rule is committed.
C21_CandidatesTriedInTableOrder ==
  AtLetter =>
    TriedInTableOrder(RulesFor(args[1].lang), args[1].mode,
      Tried(ChooseRule(counters[CountersOf(1)], RulesFor(args[1].lang),
                       args[1].mode, frame[1].src, frame[1].i)),
      DispatchOrder(RulesFor(args[1].lang),
        Dispatch(counters[CountersOf(1)], CharAt(frame[1].src, frame[1].i),
                 CharAt(frame[1].src, frame[1].i + 1)),
        CharAt(frame[1].src, frame[1].i)),
      ChooseRule(counters[CountersOf(1)], RulesFor(args[1].lang),
                 args[1].mode, frame[1].src, frame[1].i))

\* A scan is at a letter where a candidate of the range of the letter
\* alone was tried first and candidates of the range of the letter and
\* its follower after it.
C21_Witness ==
  /\ AtLetter
  /\ Len(Tried(ChooseRule(counters[CountersOf(1)], RulesFor(args[1].lang),
                          args[1].mode, frame[1].src, frame[1].i))) > 1
  /\ Tried(ChooseRule(counters[CountersOf(1)], RulesFor(args[1].lang),
                      args[1].mode, frame[1].src, frame[1].i))[1]
       = WildcardRange(counters[CountersOf(1)],
                       CharAt(frame[1].src, frame[1].i)).start
  /\ Tried(ChooseRule(counters[CountersOf(1)], RulesFor(args[1].lang),
                      args[1].mode, frame[1].src, frame[1].i))[2]
       = SpecificRange(counters[CountersOf(1)],
                       CharAt(frame[1].src, frame[1].i),
                       CharAt(frame[1].src, frame[1].i + 1)).start
  /\ WildcardRange(counters[CountersOf(1)],
                   CharAt(frame[1].src, frame[1].i)).end
       < SpecificRange(counters[CountersOf(1)],
                       CharAt(frame[1].src, frame[1].i),
                       CharAt(frame[1].src, frame[1].i + 1)).start

----------------------------------------------------------------------------
(* phonet: rules that lead with a character other than a letter A-Z        *)

\* C22: the index records the leading character of every rule, so at a
\* cursor on a separator or another character that is no letter A-Z the
\* candidates start at the first rule of the table with that leading
\* character, and the first such rule that matches there and survives the
\* lookahead is applied (as '-' -> ' ' of the German table).
C22_NonLetterRulesDispatched ==
  (/\ pc[1] = "scan"
   /\ frame[1].i < Len(frame[1].src)
   /\ CharAt(frame[1].src, frame[1].i) \notin Range(UpperLetters)) =>
    SameChoice(RulesFor(args[1].lang),
      ChooseRule(counters[CountersOf(1)], RulesFor(args[1].lang),
                 args[1].mode, frame[1].src, frame[1].i),
      LinearChoice(counters[CountersOf(1)], RulesFor(args[1].lang),
                   args[1].mode, frame[1].src, frame[1].i))

----------------------------------------------------------------------------
(* phonet: how often the index is built                                    *)

\* C23: the index of a language is built once and then reused.  When a
\* call passes "_initialize_phonet(lang)" after another call for the same
\* language has returned, nothing is built: the Counters stay as they are.
C23_IndexBuiltOnce ==
  [][\A c \in Calls :
       (/\ pc[c] = "start"
        /\ pc'[c] = "enter"
        /\ \E d \in Calls \ {c} :
             pc[d] = "done" /\ args[d].lang = args[c].lang)
       => counters' = counters]_vars

----------------------------------------------------------------------------
(* phonet: the anchors and the shorten markers of a candidate              *)

\* The match of the rule at pos at i up to and including its letter class.
ClassMatch(rules, pos, src, i) ==
  LetterClass(src, i, LiteralRun(src, i, 1, Tail(RuleAt(rules, pos))))

\* What is left of a pattern for the anchor test, after the match cls, the
\* shortening, '<', the priority and the first '^' of '^^'.
AnchorPart(cls) ==
  SkipReset(ReadPriority(SkipMerge(Shorten(cls.matches, cls.rule).rule)).rule)

\* The table positions whose rule leads with char.
LedBy(rules, char) ==
  {p \in Positions(rules, 0, Len(rules) - 1) :
     RuleAt(rules, p) # None /\ RuleAt(rules, p)[1] = char}

\* The call is at a scan position.
Scanning == pc[1] = "scan" /\ frame[1].i < Len(frame[1].src)

\* C24 (as stated): '$' constrains the right side only.  A rule whose
\* pattern has matched up to a '$' with no '^' is accepted wherever the
\* match ends at a right word boundary, whatever precedes the cursor.
C24_DollarConstrainsRightSideOnly ==
  Scanning =>
    \A p \in LedBy(RulesFor(args[1].lang),
                   CharAt(frame[1].src, frame[1].i)) :
      (/\ AnchorPart(ClassMatch(RulesFor(args[1].lang), p, frame[1].src,
                                frame[1].i)) = <<"$">>
       /\ AtWordEnd(frame[1].src,
            frame[1].i + ClassMatch(RulesFor(args[1].lang), p,
                                    frame[1].src, frame[1].i).matches))
      => MatchRule(RulesFor(args[1].lang), p, frame[1].src,
                   frame[1].i).accepted

\* C24 (amended): a rule whose pattern has matched up to a '$' with no '^'
\* is accepted exactly when the cursor is preceded by a letter and the
\* match ends at a right word boundary (the next character is neither a
\* letter nor '.'): such a rule is accepted neither at position 0 nor
\* after a character that is no letter.
C24_DollarNeedsLetterBefore ==
  Scanning =>
    \A p \in LedBy(RulesFor(args[1].lang),
                   CharAt(frame[1].src, frame[1].i)) :
      AnchorPart(ClassMatch(RulesFor(args[1].lang), p, frame[1].src,
                            frame[1].i)) = <<"$">>
      => (MatchRule(RulesFor(args[1].lang), p, frame[1].src,
                    frame[1].i).accepted
            <=> /\ frame[1].i > 0
                /\ IsAlpha(CharAt(frame[1].src, frame[1].i - 1))
                /\ AtWordEnd(frame[1].src,
                     frame[1].i + ClassMatch(RulesFor(args[1].lang), p,
                                             frame[1].src,
                                             frame[1].i).matches))

\* A scan is at position 0 where the pattern of a rule has matched up to
\* its '$' and the match ends the word, and the rule is not accepted.
C24_Witness ==
  /\ Scanning
  /\ frame[1].i = 0
  /\ \E p \in LedBy(RulesFor(args[1].lang),
                    CharAt(frame[1].src, frame[1].i)) :
       /\ AnchorPart(ClassMatch(RulesFor(args[1].lang), p, frame[1].src,
                                frame[1].i)) = <<"$">>
       /\ AtWordEnd(frame[1].src,
            frame[1].i + ClassMatch(RulesFor(args[1].lang), p,
                                    frame[1].src, frame[1].i).matches)
       /\ ~MatchRule(RulesFor(args[1].lang), p, frame[1].src,
                     frame[1].i).accepted

\* The number of '-' markers in what is left of a pattern.
IsDash(c) == c = "-"

Dashes(rule) == Len(SelectSeq(rule, IsDash))

\* The letters that the committed rule of the candidate loop cl consumes
\* are the letters it matched less one for each of its dashes '-', and at
\* least one.
ConsumesLessDashes(cl, dashes) ==
  cl.cand.matches = cl.cand.matches0 - Min(dashes, cl.cand.matches0 - 1)

LeftSide(src, i, anchor) ==
  IF anchor[1] = "^"
  THEN i = 0 \/ ~IsAlpha(CharAt(src, i - 1))
  ELSE i > 0 /\ IsAlpha(CharAt(src, i - 1))

\* The match m of a rule with the anchors anchor is accepted exactly when
\* the left side is as the anchors ask and the word ends k letters after
\* the cursor.
BoundaryTestedAt(src, i, anchor, m, k) ==
  m.accepted <=> (LeftSide(src, i, anchor) /\ AtWordEnd(src, i + k))

\* The anchors of a rule with '$'.
DollarAnchors == {<<"$">>, <<"^", "$">>}

\* C26 (as stated): the anchors are checked against the shortened match.
\* For a rule with '-' markers and '$' the right boundary is looked for at
\* the end of the shortened match, the cursor plus the consumed length.
C26_DollarTestedAtShortenedEnd ==
  Scanning =>
    \A p \in LedBy(RulesFor(args[1].lang),
                   CharAt(frame[1].src, frame[1].i)) :
      (/\ AnchorPart(ClassMatch(RulesFor(args[1].lang), p, frame[1].src,
                                frame[1].i)) \in DollarAnchors
       /\ MatchRule(RulesFor(args[1].lang), p, frame[1].src,
                    frame[1].i).matches
            < MatchRule(RulesFor(args[1].lang), p, frame[1].src,
                        frame[1].i).matches0)
      => BoundaryTestedAt(frame[1].src, frame[1].i,
           AnchorPart(ClassMatch(RulesFor(args[1].lang), p, frame[1].src,
                                 frame[1].i)),
           MatchRule(RulesFor(args[1].lang), p, frame[1].src, frame[1].i),
           MatchRule(RulesFor(args[1].lang), p, frame[1].src,
                     frame[1].i).matches)

\* C26 (amended): the anchors are checked after the shortening but
\* against the match as it was before: for a rule with '-' markers and
\* '$' the right boundary is looked for after all the matched letters,
\* the cursor plus the length before shortening, so the shortening never
\* changes whether the '$' condition is satisfied.
C26_DollarTestedAtFullEnd ==
  Scanning =>
    \A p \in LedBy(RulesFor(args[1].lang),
                   CharAt(frame[1].src, frame[1].i)) :
      (/\ AnchorPart(ClassMatch(RulesFor(args[1].lang), p, frame[1].src,
                                frame[1].i)) \in DollarAnchors
       /\ MatchRule(RulesFor(args[1].lang), p, frame[1].src,
                    frame[1].i).matches
            < MatchRule(RulesFor(args[1].lang), p, frame[1].src,
                        frame[1].i).matches0)
      => BoundaryTestedAt(frame[1].src, frame[1].i,
           AnchorPart(ClassMatch(RulesFor(args[1].lang), p, frame[1].src,
                                 frame[1].i)),
           MatchRule(RulesFor(args[1].lang), p, frame[1].src, frame[1].i),
           MatchRule(RulesFor(args[1].lang), p, frame[1].src,
                     frame[1].i).matches0)

\* A scan is at a position where a shortened rule with '$' is accepted
\* although a letter follows the letters it consumes.
C26_Witness ==
  /\ Scanning
  /\ \E p \in LedBy(RulesFor(args[1].lang),
                    CharAt(frame[1].src, frame[1].i)) :
       /\ AnchorPart(ClassMatch(RulesFor(args[1].lang), p, frame[1].src,
                                frame[1].i)) \in DollarAnchors
       /\ MatchRule(RulesFor(args[1].lang), p, frame[1].src,
                    frame[1].i).matches
            < MatchRule(RulesFor(args[1].lang), p, frame[1].src,
                        frame[1].i).matches0
       /\ MatchRule(RulesFor(args[1].lang), p, frame[1].src,
                    frame[1].i).accepted
       /\ ~AtWordEnd(frame[1].src,
            frame[1].i + MatchRule(RulesFor(args[1].lang), p, frame[1].src,
                                   frame[1].i).matches)

----------------------------------------------------------------------------
(* The commit of a rule with '^^'                                          *)

\* The rule applied in the step h carries '^^'.
IsResetStep(rules, h) ==
  h.pos >= 0 /\ HasAfterFirst(<<"^", "^">>, RuleAt(rules, h.pos))

\* out with the replacement rule written after it, each character of rule
\* but the last left out when it equals the character written last.
RECURSIVE Squeezed(_, _)
Squeezed(out, rule) ==
  IF Len(rule) <= 1 THEN out \o rule
  ELSE IF out # <<>> /\ out[Len(out)] = rule[1]
  THEN Squeezed(out, Tail(rule))
  ELSE Squeezed(Append(out, rule[1]), Tail(rule))

\* The step h was made at a word start, left the output as out, dropped
\* src up to the end of the consumed letters and restarted at 0.
ResetEffect(h, out) ==
  /\ h.i = 0 \/ ~IsAlpha(CharAt(h.src, h.i - 1))
  /\ h.out_after = out
  /\ h.src_after = From(h.src, h.i + h.matches)
  /\ h.i_after = 0
  /\ Len(h.src_after) < Len(h.src)

\* C27 (as stated): a '^^' rule is committed only at a word start; the
\* commit appends the whole replacement of the mode to the output, leaves
\* of src the tail after the consumed letters and sets the cursor to 0,
\* so that src is strictly shorter after it.
C27_ResetAppendsWholeReplacement ==
  \A k \in DOMAIN steps[1] :
    IsResetStep(RulesFor(args[1].lang), steps[1][k])
      => ResetEffect(steps[1][k],
           steps[1][k].out \o Replacement(RulesFor(args[1].lang),
                                          steps[1][k].pos, args[1].mode))

\* C27 (amended): a '^^' rule is committed only at a word start; the
\* commit writes the replacement of the mode after the output, leaving
\* out each character but the last that equals the character written
\* last, leaves of src the tail after the consumed letters and sets the
\* cursor to 0, so that src is strictly shorter after it.
C27_ResetAppendsSqueezedReplacement ==
  \A k \in DOMAIN steps[1] :
    IsResetStep(RulesFor(args[1].lang), steps[1][k])
      => ResetEffect(steps[1][k],
           Squeezed(steps[1][k].out,
                    Replacement(RulesFor(args[1].lang), steps[1][k].pos,
                                args[1].mode)))

\* A '^^' rule was committed after output that ends in the first character
\* of its replacement, and that character was not written again.
C27_Witness ==
  \E k \in DOMAIN steps[1] :
    /\ IsResetStep(RulesFor(args[1].lang), steps[1][k])
    /\ steps[1][k].out # <<>>
    /\ Len(steps[1][k].out_after)
         < Len(steps[1][k].out)
             + Len(Replacement(RulesFor(args[1].lang), steps[1][k].pos,
                               args[1].mode))

----------------------------------------------------------------------------
(* The commit of a rule with '<'                                           *)

\* The step made last by call 1.
LastStep == steps[1][Len(steps[1])]

\* The step h applied a rule with '<' while zeta was 0.
IsMergeStep(rules, h) ==
  h.pos >= 0 /\ HasAfterFirst(<<"<">>, RuleAt(rules, h.pos)) /\ h.zeta = 0

\* The output out is not empty, the replacement rule is not empty and the
\* character written last is the current character of src or the first
\* character of the replacement.
Retracts(out, rule, char) ==
  /\ out # <<>>
  /\ rule # <<>>
  /\ out[Len(out)] = char \/ out[Len(out)] = rule[1]

\* What the step h with the replacement rule leaves: the output without
\* its last character or as it was, the cursor where it was, the consumed
\* part of src overwritten by the replacement, and zeta as zeta_after.
MergeEffect(h, rule, zeta_after) ==
  /\ h.out_after = IF Retracts(h.out, rule, CharAt(h.src, h.i))
                   THEN Slice(h.out, 0, Len(h.out) - 1)
                   ELSE h.out
  /\ h.i_after = h.i
  /\ h.src_after = Slice(h.src, 0, h.i) \o rule
                     \o From(h.src, h.i + h.matches)
  /\ zeta_after = h.zeta + 1

\* C28: the commit of a '<' rule while zeta is 0 changes the output only
\* by taking back its last character, which it does exactly when the
\* output is not empty, the replacement is not empty and the character
\* written last equals the current character of src or the first
\* character of the replacement; nothing is written, the cursor stays,
\* the consumed characters of src are overwritten in place by the
\* replacement and zeta is incremented.
C28_MergeRetractsAtMostOne ==
  (steps[1] # <<>> /\ IsMergeStep(RulesFor(args[1].lang), LastStep))
    => MergeEffect(LastStep,
                   Replacement(RulesFor(args[1].lang), LastStep.pos,
                               args[1].mode),
                   frame[1].zeta)

\* A '<' rule was committed with zeta 0 and took back the last character
\* of the output.
C28_Witness ==
  /\ steps[1] # <<>>
  /\ IsMergeStep(RulesFor(args[1].lang), LastStep)
  /\ Len(LastStep.out_after) < Len(LastStep.out)

\* zeta after the step k of call 1.
ZetaAfter(k) ==
  IF k < Len(steps[1]) THEN steps[1][k + 1].zeta ELSE frame[1].zeta

\* The step h went past at least one character of src, or applied a rule
\* with '^^'.
Advances(rules, h) == h.i_after >= h.i + 1 \/ IsResetStep(rules, h)

\* The step k of call 1 follows a '<' rewrite: it is no rewrite, it
\* advances or resets, and zeta is 0 after it.
FollowsMerge(rules, k) ==
  /\ ~IsMergeStep(rules, steps[1][k])
  /\ steps[1][k].kind # "merge"
  /\ Advances(rules, steps[1][k])
  /\ ZetaAfter(k) = 0

\* C29: the '<' rewrite in place is never applied in two consecutive
\* iterations of the scan: the iteration after a rewrite advances the
\* cursor by at least one character or resets with '^^' and sets zeta
\* back to 0; src never grows; so the scan loop makes at most
\* 2 * len(src) iterations.
C29_NoTwoMergesInARow ==
  /\ \A k \in DOMAIN steps[1] :
       /\ Len(steps[1][k].src_after) <= Len(steps[1][k].src)
       /\ (k > 1 /\ IsMergeStep(RulesFor(args[1].lang), steps[1][k - 1]))
            => FollowsMerge(RulesFor(args[1].lang), k)
  /\ steps[1] # <<>> => Len(steps[1]) <= 2 * Len(steps[1][1].src)

\* A '<' rewrite was followed by an iteration that applied another rule
\* with '<', which was then written to the output.
C29_Witness ==
  \E k \in DOMAIN steps[1] :
    /\ k > 1
    /\ IsMergeStep(RulesFor(args[1].lang), steps[1][k - 1])
    /\ steps[1][k].pos >= 0
    /\ HasAfterFirst(<<"<">>, RuleAt(RulesFor(args[1].lang), steps[1][k].pos))
    /\ steps[1][k].kind = "replace"

----------------------------------------------------------------------------
(* A word and the same word in upper case                                  *)

\* The longest generated word of the comparison.
CaseMaxLen == 2

\* Letters as <<letter, the same letter in upper case>>: lower-case
\* letters that the translation converts, a letter that is upper case
\* already, and the sharp s, which the translation leaves as it is.
CaseLetters ==
  {<<"s", "S">>, <<"c", "C">>, <<"h", "H">>, <<"S", "S">>,
   <<"auml", "Auml">>, <<"szlig", "szlig">>}

\* Words of such letters.
CaseWords ==
  UNION {[1..n -> CaseLetters] : n \in 1..CaseMaxLen}
    \cup {<<<<"s", "S">>, <<"c", "C">>, <<"h", "H">>>>,
          <<<<"S", "S">>, <<"c", "C">>, <<"h", "H">>>>}

\* The word as written, and the word in upper case.
AsWritten(w) == [k \in DOMAIN w |-> w[k][1]]
InUpperCase(w) == [k \in DOMAIN w |-> w[k][2]]

\* Call 1 gets a word, call 2 the same word in upper case.
InitCase ==
  \E w \in CaseWords, m \in Modes, l \in Langs :
    InitWith((1 :> [word |-> AsWritten(w), mode |-> m, lang |-> l])
               @@ (2 :> [word |-> InUpperCase(w), mode |-> m, lang |-> l]),
             Calls)

SpecCase == InitCase /\ [][Next]_vars

\* The lower-case letters of CaseLetters that have an upper-case form.
LowerCased == {p[1] : p \in {q \in CaseLetters : q[1] # q[2]}}

\* No character of out is a lower-case letter.
NoLowerCase(out) == \A k \in DOMAIN out : out[k] \notin LowerCased

\* C30: the output does not depend on the case of the input and never
\* shows what dest held at the start: every character written is a
\* character of a replacement or a character of the upper-cased src, so
\* that phonet(word) equals phonet of the word in upper case (in the
\* upper case of _phonet_upper_translation, which leaves the sharp s as it
\* is), in every mode and language.
C30_CaseInsensitive ==
  /\ \A c \in Calls : Scanned(c) => NoLowerCase(Written(c))
  /\ \A c \in Calls : pc[c] = "done" => NoLowerCase(result[c])
  /\ (pc[1] = "done" /\ pc[2] = "done") => result[1] = result[2]
  /\ pc[1] # "raised" /\ pc[2] # "raised"

\* A word with a lower-case letter and the same word in upper case have
\* both returned, with a result that is not empty.
C30_Witness ==
  /\ pc[1] = "done" /\ pc[2] = "done"
  /\ args[1].word # args[2].word
  /\ frame[1].dest # frame[2].dest
  /\ result[1] # <<>>
  /\ result[1] = result[2]

=============================================================================
